---- MODULE Spec2Model ----
(***************************************************************************)
(* Model of the LightSwarm middleware: the MDP wire codec (SLIP framing,   *)
(* XOR checksum), the single-writer serial transmit queue, the session     *)
(* routes with the ambient animation engine, and the light simulator.      *)
(***************************************************************************)
EXTENDS Integers, Sequences, FiniteSets, TLC

(***************************************************************************)
(* Bounds of the model                                                     *)
(***************************************************************************)
\* longest byte sequence handed to the codec
MaxLen == 3
\* most jobs a behaviour passes to send() before callers stop starting new ones
MaxJobs == 2
\* most POST /login requests in a behaviour
MaxLogins == 2
\* most rows of the session log
MaxSessionEvents == 3

\* frames after which the ambient timer is no longer followed
MaxFrames == 4
MaxRoutines == 2
MaxRequests == 1
\* pending reconnect timers beyond which no further admin reconnect is issued
MaxReconnects == 1

(***************************************************************************)
(* src/mdp/slip.js : constants                                             *)
(***************************************************************************)
SLIP_END == 192
SLIP_ESC == 219
SLIP_ESC_END == 220
SLIP_ESC_ESC == 221

\* bytes the codec is exercised with: the four SLIP bytes, two bytes whose
\* XOR is SLIP_END (0xE0, 0x20), and ordinary bytes
CodecBytes == {0, 1, 32, 192, 219, 220, 221, 224}

Last(s) == s[Len(s)]

RECURSIVE SeqsUpTo(_, _)
SeqsUpTo(S, n) ==
  IF n = 0 THEN {<<>>}
  ELSE LET shorter == SeqsUpTo(S, n - 1)
       IN  shorter \cup {Append(s, b) : s \in {t \in shorter : Len(t) = n - 1}, b \in S}

(***************************************************************************)
(* src/mdp/slip.js : encode, decode                                        *)
(***************************************************************************)
\* encode without the SLIP_ESC case of the switch
RECURSIVE encodeLoopNoEscEsc(_, _, _)
encodeLoopNoEscEsc(data, i, encoded) ==
  IF i > Len(data) THEN Append(encoded, SLIP_END)
  ELSE IF data[i] = SLIP_END
       THEN encodeLoopNoEscEsc(data, i + 1, encoded \o <<SLIP_ESC, SLIP_ESC_END>>)
       ELSE encodeLoopNoEscEsc(data, i + 1, Append(encoded, data[i]))

encodeNoEscEsc(data) == encodeLoopNoEscEsc(data, 1, <<SLIP_END>>)

RECURSIVE encodeLoop(_, _, _)
encodeLoop(data, i, encoded) ==
  IF i > Len(data) THEN Append(encoded, SLIP_END)
  ELSE IF data[i] = SLIP_END
       THEN encodeLoop(data, i + 1, encoded \o <<SLIP_ESC, SLIP_ESC_END>>)
       ELSE IF data[i] = SLIP_ESC
            THEN encodeLoop(data, i + 1, encoded \o <<SLIP_ESC, SLIP_ESC_ESC>>)
            ELSE encodeLoop(data, i + 1, Append(encoded, data[i]))

encode(data) == encodeLoop(data, 1, <<SLIP_END>>)

RECURSIVE decodeLoop(_, _, _, _)
decodeLoop(buffer, i, escaping, decoded) ==
  IF i > Len(buffer) THEN decoded
  ELSE IF escaping
       THEN IF buffer[i] = SLIP_ESC_END
            THEN decodeLoop(buffer, i + 1, FALSE, Append(decoded, SLIP_END))
            ELSE IF buffer[i] = SLIP_ESC_ESC
                 THEN decodeLoop(buffer, i + 1, FALSE, Append(decoded, SLIP_ESC))
                 ELSE decodeLoop(buffer, i + 1, FALSE, Append(decoded, buffer[i]))
       ELSE IF buffer[i] = SLIP_END
            THEN decodeLoop(buffer, i + 1, FALSE, decoded)
            ELSE IF buffer[i] = SLIP_ESC
                 THEN decodeLoop(buffer, i + 1, TRUE, decoded)
                 ELSE decodeLoop(buffer, i + 1, FALSE, Append(decoded, buffer[i]))

\* decode whose escape switch lacks the SLIP_ESC_ESC case
RECURSIVE decodeLoopNoEscEsc(_, _, _, _)
decodeLoopNoEscEsc(buffer, i, escaping, decoded) ==
  IF i > Len(buffer) THEN decoded
  ELSE IF escaping
       THEN IF buffer[i] = SLIP_ESC_END
            THEN decodeLoopNoEscEsc(buffer, i + 1, FALSE, Append(decoded, SLIP_END))
            ELSE decodeLoopNoEscEsc(buffer, i + 1, FALSE, Append(decoded, buffer[i]))
       ELSE IF buffer[i] = SLIP_END
            THEN decodeLoopNoEscEsc(buffer, i + 1, FALSE, decoded)
            ELSE IF buffer[i] = SLIP_ESC
                 THEN decodeLoopNoEscEsc(buffer, i + 1, TRUE, decoded)
                 ELSE decodeLoopNoEscEsc(buffer, i + 1, FALSE, Append(decoded, buffer[i]))

decodeNoEscEsc(buffer) == decodeLoopNoEscEsc(buffer, 1, FALSE, <<>>)

decode(buffer) == decodeLoop(buffer, 1, FALSE, <<>>)

(***************************************************************************)
(* src/mdp/protocol.js : calculateChecksum, buildPacket                    *)
(***************************************************************************)
\* the ^ operator on non-negative integers
RECURSIVE BitXor(_, _)
BitXor(a, b) ==
  IF a = 0 THEN b
  ELSE IF b = 0 THEN a
       ELSE ((a + b) % 2) + 2 * BitXor(a \div 2, b \div 2)

RECURSIVE checksumLoop(_, _, _)
checksumLoop(data, i, checksum) ==
  IF i > Len(data) THEN checksum % 256
  \* data is a Buffer: data[i] reads one byte
  ELSE checksumLoop(data, i + 1, BitXor(checksum, data[i] % 256))

\* a checksum that adds the bytes instead of XOR-ing them
RECURSIVE checksumSumLoop(_, _, _)
checksumSumLoop(data, i, checksum) ==
  IF i > Len(data) THEN checksum % 256
  ELSE checksumSumLoop(data, i + 1, checksum + data[i])

calculateChecksumSum(data) == checksumSumLoop(data, 1, 0)

calculateChecksum(data) == checksumLoop(data, 1, 0)

buildPacket(commandBytes) ==
  LET checksum == calculateChecksum(commandBytes)
      withChecksum == Append(commandBytes, checksum)
  IN  encode(withChecksum)

(***************************************************************************)
(* src/mdp/commands.js : opcodes, address packing, command builders        *)
(***************************************************************************)
MDP_ON == 32
MDP_OFF == 33
MDP_LEVEL == 34
MDP_FADE == 35
MDP_RGB_LEVEL == 44
MDP_FLASH == 46
MDP_RGB_FADE == 49
BROADCAST_ADDRESS == 65535

Max2(a, b) == IF a >= b THEN a ELSE b
Min2(a, b) == IF a <= b THEN a ELSE b

\* a clamp that forgets the lower bound
clampNoFloor(v, lo, hi) == Min2(hi, v)

\* Math.max(lo, Math.min(hi, Math.round(v))) on an integer v
clamp(v, lo, hi) == Max2(lo, Min2(hi, v))

\* the test of addressToBytes that throws 'Invalid address'
invalidAddress(address) == address < 0 \/ address > 65535

\* an address packed low byte first
addressToBytesLowFirst(address) == <<address % 256, (address \div 256) % 256>>

\* addressToBytes for an address that passed the test
addressToBytes(address) == <<(address \div 256) % 256, address % 256>>

bytesToAddress(bytes) == bytes[1] * 256 + bytes[2]

buildOnCommand(address) == addressToBytes(address) \o <<MDP_ON>>

buildOffCommand(address) == addressToBytes(address) \o <<MDP_OFF>>

buildLevelCommand(address, level) ==
  addressToBytes(address) \o <<MDP_LEVEL, clamp(level, 0, 255)>>

buildFadeCommand(address, level, interval, step) ==
  addressToBytes(address) \o
    <<MDP_FADE, clamp(level, 0, 255), clamp(interval, 1, 255), clamp(step, 1, 127)>>

buildRgbLevelCommand(address, red, green, blue) ==
  addressToBytes(address) \o
    <<MDP_RGB_LEVEL, clamp(red, 0, 255), clamp(green, 0, 255), clamp(blue, 0, 255)>>

\* red, green, blue: records {level, interval, step}
buildRgbFadeCommand(address, red, green, blue) ==
  addressToBytes(address) \o
    <<MDP_RGB_FADE,
      clamp(red.level, 0, 255), clamp(red.interval, 1, 255), clamp(red.step, 1, 127),
      clamp(green.level, 0, 255), clamp(green.interval, 1, 255), clamp(green.step, 1, 127),
      clamp(blue.level, 0, 255), clamp(blue.interval, 1, 255), clamp(blue.step, 1, 127)>>

\* a flash command with its 2-byte fields low byte first
buildFlashCommandLowFirst(address, levelA, levelB, flashSteps, intervalA, intervalB) ==
  LET steps == clamp(flashSteps, 2, 65535)
      intA == clamp(intervalA, 1, 65535)
      intB == clamp(intervalB, 1, 65535)
  IN  addressToBytes(address) \o
        <<MDP_FLASH, steps % 256, (steps \div 256) % 256, intA % 256, (intA \div 256) % 256,
          intB % 256, (intB \div 256) % 256, clamp(levelA, 0, 255), clamp(levelB, 0, 255)>>

buildFlashCommand(address, levelA, levelB, flashSteps, intervalA, intervalB) ==
  LET steps == clamp(flashSteps, 2, 65535)
      intA == clamp(intervalA, 1, 65535)
      intB == clamp(intervalB, 1, 65535)
  IN  addressToBytes(address) \o
        <<MDP_FLASH, (steps \div 256) % 256, steps % 256, (intA \div 256) % 256, intA % 256,
          (intB \div 256) % 256, intB % 256, clamp(levelA, 0, 255), clamp(levelB, 0, 255)>>

(***************************************************************************)
(* src/mdp/protocol.js : packet builders and the fade planner              *)
(***************************************************************************)
packetOn(address) == buildPacket(buildOnCommand(address))

packetOff(address) == buildPacket(buildOffCommand(address))

packetLevel(address, level) == buildPacket(buildLevelCommand(address, level))

packetFade(address, level, interval, step) ==
  buildPacket(buildFadeCommand(address, level, interval, step))

packetRgbLevel(address, red, green, blue) ==
  buildPacket(buildRgbLevelCommand(address, red, green, blue))

Abs(x) == IF x < 0 THEN 0 - x ELSE x

\* the fade planner without the caps on the step
calculateFadeParamsNoStepCap(currentLevel, targetLevel, fadeTimeMs) ==
  LET levelDiff == Abs(targetLevel - currentLevel)
      rounded == (2 * fadeTimeMs + 10 * levelDiff) \div (20 * levelDiff)
      step == IF rounded < 1 /\ fadeTimeMs > 0
              THEN (10 * levelDiff + fadeTimeMs - 1) \div fadeTimeMs
              ELSE IF rounded < 1 THEN 256 ELSE 1
  IN  IF levelDiff = 0 THEN [interval |-> 1, step |-> 1]
      ELSE [interval |-> Max2(1, Min2(255, rounded)), step |-> step]

\* fadeTimeMs / 10 is kept as the fraction fadeTimeMs/10:
\* Math.round(n/d) = floor((2n + d) / 2d), Math.ceil(n/d) = floor((n + d - 1) / d)
calculateFadeParams(currentLevel, targetLevel, fadeTimeMs) ==
  LET levelDiff == Abs(targetLevel - currentLevel)
      rounded == (2 * fadeTimeMs + 10 * levelDiff) \div (20 * levelDiff)
      interval == IF rounded > 255 THEN 255 ELSE IF rounded < 1 THEN 1 ELSE rounded
      step == IF rounded > 255 THEN 1
              ELSE IF rounded < 1
                   THEN IF fadeTimeMs = 0 THEN 127
                        ELSE Min2(127, (10 * levelDiff + fadeTimeMs - 1) \div fadeTimeMs)
                   ELSE 1
  IN  IF levelDiff = 0 THEN [interval |-> 1, step |-> 1]
      ELSE [interval |-> Max2(1, Min2(255, interval)), step |-> Max2(1, Min2(127, step))]

(***************************************************************************)
(* Inventory (part_003: tables apartments and amenities) and settings      *)
(***************************************************************************)
NULL == "null"

\* rows of the apartments table, in the order of apartments.getAll()
Apartments ==
  << [id |-> "T1-0901", tower_id |-> "T1", floor |-> 9, lightswarm_address |-> 5,
      floorplate_id |-> "FP-09"],
     [id |-> "T1-1001", tower_id |-> "T1", floor |-> 10, lightswarm_address |-> 192,
      floorplate_id |-> "FP-10"],
     [id |-> "T1-1002", tower_id |-> "T1", floor |-> 10, lightswarm_address |-> 0,
      floorplate_id |-> "FP-10"] >>

\* rows of the apartment_lights table, ordered by apartment_id, light_index
ApartmentLights ==
  << [apartment_id |-> "T1-1001", light_index |-> 1, lightswarm_address |-> 192],
     [apartment_id |-> "T1-1001", light_index |-> 2, lightswarm_address |-> 193] >>

\* ids of the rows of the floorplates table
Floorplates == {"FP-09", "FP-10"}

\* column current_state of the apartments table: DEFAULT 'AVAILABLE'
seededStates == [id \in {Apartments[i].id : i \in 1..Len(Apartments)} |-> "AVAILABLE"]

\* rows of the amenities table
Amenities ==
  << [id |-> "GYM", tower_id |-> NULL, floor |-> 9, lightswarm_address |-> 219] >>

\* SQL "column = ?": a comparison with NULL is never true
SqlEq(column, param) == column # NULL /\ param # NULL /\ column = param

RECURSIVE SelectWhere(_, _, _)
SelectWhere(rows, towerId, floor) ==
  IF rows = <<>> THEN <<>>
  ELSE LET r == Head(rows)
           rest == SelectWhere(Tail(rows), towerId, floor)
       IN  IF SqlEq(r.tower_id, towerId) /\ SqlEq(r.floor, floor)
           THEN <<r>> \o rest ELSE rest

\* apartments.getByFloor(towerId, floor)
apartmentsGetByFloor(towerId, floor) == SelectWhere(Apartments, towerId, floor)

\* amenities.getByFloor(towerId, floor)
amenitiesGetByFloor(towerId, floor) == SelectWhere(Amenities, towerId, floor)

\* apartments.getFloorRange()
getFloorRange ==
  LET floors == {Apartments[i].floor : i \in 1..Len(Apartments)}
  IN  IF floors = {} THEN [min_floor |-> 0, max_floor |-> 0]
      ELSE [min_floor |-> CHOOSE f \in floors : \A g \in floors : f <= g,
            max_floor |-> CHOOSE f \in floors : \A g \in floors : f >= g]

(***************************************************************************)
(* src/simulator/index.js : LightSimulator                                 *)
(***************************************************************************)
FixtureAddresses ==
  {Apartments[i].lightswarm_address : i \in 1..Len(Apartments)} \cup
  {Amenities[i].lightswarm_address : i \in 1..Len(Amenities)}

LightOff == [on |-> FALSE, level |-> 0, r |-> 0, g |-> 0, b |-> 0]

\* initializeFromDatabase
initializeFromDatabase == [a \in FixtureAddresses |-> LightOff]

\* data[i] || 0 (i counted from 0 as in the source)
DataOr0(data, i) == IF i + 1 <= Len(data) THEN data[i + 1] ELSE 0

Max3(a, b, c) == Max2(a, Max2(b, c))

\* a switch whose colour commands report the red channel as the level
applyCommandLevelIsRed(state, command, data) ==
  IF command = MDP_ON
  THEN [on |-> TRUE, level |-> 255, r |-> 255, g |-> 255, b |-> 255]
  ELSE IF command = MDP_OFF
  THEN [on |-> FALSE, level |-> 0, r |-> 0, g |-> 0, b |-> 0]
  ELSE IF command \in {MDP_LEVEL, MDP_FADE}
  THEN LET level == DataOr0(data, 0)
       IN  [on |-> level > 0, level |-> level, r |-> level, g |-> level, b |-> level]
  ELSE IF command \in {MDP_RGB_LEVEL, MDP_RGB_FADE}
  THEN LET k == IF command = MDP_RGB_LEVEL THEN 1 ELSE 3
           r == DataOr0(data, 0)
           g == DataOr0(data, k)
           b == DataOr0(data, 2 * k)
       IN  [on |-> (r > 0 \/ g > 0 \/ b > 0), level |-> r, r |-> r, g |-> g, b |-> b]
  ELSE state

\* the switch of executeCommand on one light's state
applyCommand(state, command, data) ==
  IF command = MDP_ON
  THEN [on |-> TRUE, level |-> 255, r |-> 255, g |-> 255, b |-> 255]
  ELSE IF command = MDP_OFF
  THEN [on |-> FALSE, level |-> 0, r |-> 0, g |-> 0, b |-> 0]
  ELSE IF command \in {MDP_LEVEL, MDP_FADE}
  THEN LET level == DataOr0(data, 0)
       IN  [on |-> level > 0, level |-> level, r |-> level, g |-> level, b |-> level]
  ELSE IF command = MDP_RGB_LEVEL
  THEN LET r == DataOr0(data, 0)
           g == DataOr0(data, 1)
           b == DataOr0(data, 2)
       IN  [on |-> (r > 0 \/ g > 0 \/ b > 0), level |-> Max3(r, g, b),
            r |-> r, g |-> g, b |-> b]
  ELSE IF command = MDP_RGB_FADE
  THEN LET r == DataOr0(data, 0)
           g == DataOr0(data, 3)
           b == DataOr0(data, 6)
       IN  [on |-> (r > 0 \/ g > 0 \/ b > 0), level |-> Max3(r, g, b),
            r |-> r, g |-> g, b |-> b]
  ELSE state

\* executeCommand / executeBroadcast on the fixture table
executeCommand(table, address, command, data) ==
  IF address = BROADCAST_ADDRESS
  THEN [a \in DOMAIN table |-> applyCommand(table[a], command, data)]
  ELSE IF address \in DOMAIN table
       THEN [table EXCEPT ![address] = applyCommand(table[address], command, data)]
       ELSE table

DropFirst(s) == SubSeq(s, 2, Len(s))
DropLast(s) == SubSeq(s, 1, Len(s) - 1)

\* the byte array processPacket works on: delimiters stripped, last byte popped
stripFrame(pkt) ==
  LET b1 == IF Len(pkt) > 0 /\ pkt[1] = 192 THEN DropFirst(pkt) ELSE pkt
      b2 == IF Len(b1) > 0 /\ b1[Len(b1)] = 192 THEN DropLast(b1) ELSE b1
  IN  IF Len(b2) > 0 THEN DropLast(b2) ELSE b2

\* processPacket on an enabled simulator
processPacket(table, pkt) ==
  LET bytes == stripFrame(pkt)
  IN  IF Len(bytes) < 3 THEN table
      ELSE executeCommand(table, bytes[1] * 256 + bytes[2], bytes[3],
                          SubSeq(bytes, 4, Len(bytes)))

(***************************************************************************)
(* State                                                                   *)
(***************************************************************************)
VARIABLES
  \* codec harness
  codecIn,            \* the byte sequence handed to the codec
  codecPc,            \* which codec function was applied last
  encoded,            \* result of slip.encode(codecIn)
  decoded,            \* result of slip.decode(encoded)
  packet,             \* result of buildPacket(codecIn)
  \* calls of the command builders and the fade planner
  callArgs,           \* the arguments of the call
  callPc,             \* "input", or the function that was called, or "thrown"
  callResult,         \* what the call returned
  \* index.js initialize()
  phase,              \* "boot", "connecting", "listening", "running", "stopping", "exited"
  \* SerialConnection (src/mdp/serial.js)
  simulationMode,     \* this.simulationMode
  isOpen,             \* this.isOpen
  port,               \* this.port: "null", or the port's state "opening", "open", "closed"
  commandQueue,       \* this.commandQueue, as job numbers
  processing,         \* this.processing
  reconnectAttempts,  \* this.reconnectAttempts
  reconnectTimers,    \* pending setTimeout callbacks of attemptReconnect
  reconnectWait,      \* the delay (ms) given to the latest of those setTimeout calls
  gapTimers,          \* processQueue invocations suspended in delay(10)
  jobs,               \* every job passed to send(), in the order of the calls
  wire,               \* the bytes the device (or the simulation sink) has received
  sent,               \* the 'sent' notifications, in order
  \* LightSimulator (src/simulator/index.js)
  simEnabled,         \* this.enabled
  lights,             \* this.lights: address -> state
  \* settings table
  ambientEnabled,     \* settings key ambient_enabled = 'true'
  ambientSequence,    \* what settings key ambient_sequence_id resolves to
  \* session routes and AnimationEngine
  sessionLog,         \* session_log rows (event types), oldest first; "tick" marks a change of second
  routeEngine,        \* the session routes' module variable animationEngine
  running,            \* AnimationEngine.running
  sequenceTimer,      \* AnimationEngine.sequenceTimer: the routine whose timer it holds, 0 for null
  stepIndex,          \* AnimationEngine.stepIndex
  anim,               \* the engine's sequence routines, in the order they began: where each is suspended
  logins,             \* the POST /login handlers: where each is suspended
  \* apartments table and the lighting routes
  current_state,      \* column current_state of the apartments table, by apartment id
  requests            \* the PUT /apartments and PUT /floorplates handlers: where each is suspended

codecVars == <<codecIn, codecPc, encoded, decoded, packet>>

callVars == <<callArgs, callPc, callResult>>

progVars ==
  <<phase, simulationMode, isOpen, port, commandQueue, processing,
    reconnectAttempts, reconnectTimers, reconnectWait, gapTimers, jobs, wire,
    sent,
    simEnabled, lights, ambientEnabled, ambientSequence, sessionLog,
    routeEngine, running, sequenceTimer, stepIndex, anim, logins,
    current_state, requests>>

vars == <<codecVars, callVars, progVars>>

\* the program state as one record, for handlers that call each other
Cur ==
  [phase |-> phase, simulationMode |-> simulationMode, isOpen |-> isOpen,
   port |-> port, commandQueue |-> commandQueue, processing |-> processing,
   reconnectAttempts |-> reconnectAttempts, reconnectTimers |-> reconnectTimers,
   reconnectWait |-> reconnectWait,
   gapTimers |-> gapTimers, jobs |-> jobs, wire |-> wire, sent |-> sent,
   simEnabled |-> simEnabled, lights |-> lights,
   ambientEnabled |-> ambientEnabled, ambientSequence |-> ambientSequence,
   sessionLog |-> sessionLog, routeEngine |-> routeEngine, running |-> running,
   sequenceTimer |-> sequenceTimer, stepIndex |-> stepIndex, anim |-> anim,
   logins |-> logins, current_state |-> current_state, requests |-> requests]

Becomes(s) ==
  /\ phase' = s.phase
  /\ simulationMode' = s.simulationMode
  /\ isOpen' = s.isOpen
  /\ port' = s.port
  /\ commandQueue' = s.commandQueue
  /\ processing' = s.processing
  /\ reconnectAttempts' = s.reconnectAttempts
  /\ reconnectTimers' = s.reconnectTimers
  /\ reconnectWait' = s.reconnectWait
  /\ gapTimers' = s.gapTimers
  /\ jobs' = s.jobs
  /\ wire' = s.wire
  /\ sent' = s.sent
  /\ simEnabled' = s.simEnabled
  /\ lights' = s.lights
  /\ ambientEnabled' = s.ambientEnabled
  /\ ambientSequence' = s.ambientSequence
  /\ sessionLog' = s.sessionLog
  /\ routeEngine' = s.routeEngine
  /\ running' = s.running
  /\ sequenceTimer' = s.sequenceTimer
  /\ stepIndex' = s.stepIndex
  /\ anim' = s.anim
  /\ logins' = s.logins
  /\ current_state' = s.current_state
  /\ requests' = s.requests
  /\ UNCHANGED <<codecVars, callVars>>

(***************************************************************************)
(* Codec specification: the pure functions applied to bounded inputs       *)
(***************************************************************************)
ProgIdle ==
  /\ phase = "boot"
  /\ simulationMode = FALSE
  /\ isOpen = FALSE
  /\ port = "null"
  /\ commandQueue = <<>>
  /\ processing = FALSE
  /\ reconnectAttempts = 0
  /\ reconnectTimers = 0
  /\ reconnectWait = 0
  /\ gapTimers = 0
  /\ jobs = <<>>
  /\ wire = <<>>
  /\ sent = <<>>
  /\ simEnabled = FALSE
  /\ lights = initializeFromDatabase
  /\ ambientEnabled = FALSE
  /\ ambientSequence = "default_ambient"
  /\ sessionLog = <<>>
  /\ routeEngine = NULL
  /\ running = FALSE
  /\ sequenceTimer = 0
  /\ stepIndex = 0
  /\ anim = <<>>
  /\ logins = <<>>
  /\ current_state = seededStates
  /\ requests = <<>>

CallIdle ==
  /\ callArgs = <<>>
  /\ callPc = "input"
  /\ callResult = <<>>

CodecIdle ==
  /\ CallIdle
  /\ codecIn = <<>>
  /\ codecPc = "input"
  /\ encoded = <<>>
  /\ decoded = <<>>
  /\ packet = <<>>

CodecInit ==
  /\ codecIn \in SeqsUpTo(CodecBytes, MaxLen)
  /\ codecPc = "input"
  /\ encoded = <<>>
  /\ decoded = <<>>
  /\ packet = <<>>
  /\ CallIdle
  /\ ProgIdle

DoEncode ==
  /\ codecPc = "input"
  /\ encoded' = encode(codecIn)
  /\ codecPc' = "encoded"
  /\ UNCHANGED <<codecIn, decoded, packet, callVars, progVars>>

DoDecode ==
  /\ codecPc = "encoded"
  /\ decoded' = decode(encoded)
  /\ codecPc' = "decoded"
  /\ UNCHANGED <<codecIn, encoded, packet, callVars, progVars>>

DoBuildPacket ==
  /\ codecPc = "input"
  /\ packet' = buildPacket(codecIn)
  /\ codecPc' = "built"
  /\ UNCHANGED <<codecIn, encoded, decoded, callVars, progVars>>

CodecNext == DoEncode \/ DoDecode \/ DoBuildPacket

SpecCodec == CodecInit /\ [][CodecNext]_vars

(***************************************************************************)
(* src/mdp/serial.js : SerialConnection                                    *)
(***************************************************************************)
maxReconnectAttempts == 10

\* this.reconnectDelay, in ms
reconnectDelay == 2000

NewJob(data, producer, owner) ==
  [data |-> data, producer |-> producer, owner |-> owner,
   status |-> "queued", written |-> 0]

InFlight(js) == {j \in 1..Len(js) : js[j].status \in {"writing", "simAck"}}

\* attemptReconnect() giving up one attempt too late
attemptReconnectOneMore(s) ==
  IF s.reconnectAttempts > maxReconnectAttempts THEN s
  ELSE [s EXCEPT !.reconnectAttempts = @ + 1, !.reconnectTimers = @ + 1,
                 !.reconnectWait = reconnectDelay]

\* attemptReconnect()
attemptReconnect(s) ==
  IF s.reconnectAttempts >= maxReconnectAttempts THEN s
  ELSE [s EXCEPT !.reconnectAttempts = @ + 1, !.reconnectTimers = @ + 1,
                 !.reconnectWait = reconnectDelay]

\* connect(), up to the point where it waits for the port to open
connect(s) ==
  IF s.simulationMode THEN [s EXCEPT !.isOpen = TRUE]
  ELSE [s EXCEPT !.port = "opening"]

\* the early returns of processQueue, without the test of this.processing
processQueueReturnsNoFlag(isProcessing, queue, open) ==
  Len(queue) = 0 \/ ~open

\* the early returns of processQueue
processQueueReturns(isProcessing, queue, open) ==
  isProcessing \/ Len(queue) = 0 \/ ~open

\* a dequeue that takes the newest job
pop(queue) == [job |-> queue[Len(queue)], rest |-> SubSeq(queue, 1, Len(queue) - 1)]

\* this.commandQueue.shift()
shift(queue) == [job |-> Head(queue), rest |-> Tail(queue)]

\* emit('sent', ...) that always reports a live write
emitSentLive(s, j, simulated) ==
  [s EXCEPT !.sent = Append(@, [job |-> j, data |-> s.jobs[j].data,
                                simulated |-> FALSE]),
            !.lights = IF s.simEnabled THEN processPacket(@, s.jobs[j].data) ELSE @]

\* emit('sent', ...) with its observers: the audit log and the simulator
emitSent(s, j, simulated) ==
  [s EXCEPT !.sent = Append(@, [job |-> j, data |-> s.jobs[j].data,
                                simulated |-> simulated]),
            !.lights = IF s.simEnabled THEN processPacket(@, s.jobs[j].data) ELSE @]

\* the uncaughtException / unhandledRejection handlers: process.exit(1)
exit(s) == [s EXCEPT !.phase = "exited"]

(***************************************************************************)
(* part_005 : AnimationEngine, part_001 : session routes                   *)
(***************************************************************************)
\* Math.round((c * i) / 255)
scale(c, i) == (2 * c * i + 255) \div 510

\* the steps of the configured ambient sequence
StepsOf(seq) ==
  IF seq = "default_ambient"
  THEN << [command |-> "all_on", intensity |-> 100, c |-> 255] >>
  ELSE << [command |-> "all_on", intensity |-> 255, c |-> 255],
          [command |-> "all_off", intensity |-> 0, c |-> 0] >>

TypeOf(seq) == IF seq = "default_ambient" THEN "static" ELSE "loop"

\* the packets executeStep sends for a step, in order
stepPackets(step) ==
  IF step.command = "all_on"
  THEN [i \in 1..Len(Apartments) |->
          packetRgbLevel(Apartments[i].lightswarm_address,
                         scale(step.c, step.intensity), scale(step.c, step.intensity),
                         scale(step.c, step.intensity))]
  ELSE << packetOff(BROADCAST_ADDRESS) >>

\* settings.get('default_intensity')
default_intensity == 200

\* settings.get('default_fade_time_ms')
default_fade_time_ms == 500

\* the fixtures POST /login fades on a floor: apartments, then amenities
loginTargets(floor) ==
  LET apts == apartmentsGetByFloor(NULL, floor)
      ams == amenitiesGetByFloor(NULL, floor)
  IN  [i \in 1..Len(apts) |-> apts[i].lightswarm_address] \o
      [i \in 1..Len(ams) |-> ams[i].lightswarm_address]

loginPacket(address) ==
  LET fadeParams == calculateFadeParams(255, 0, default_fade_time_ms)
  IN  packetFade(address, 0, fadeParams.interval, fadeParams.step)

\* stopAmbient()
stopAmbient(s) ==
  [s EXCEPT !.running = FALSE,
            !.sequenceTimer = 0,
            !.stepIndex = 0,
            !.anim = IF s.sequenceTimer > 0 /\ @[s.sequenceTimer].pc = "timer"
                     THEN [@ EXCEPT ![s.sequenceTimer].pc = "none"] ELSE @]

RECURSIVE processQueue(_)
RECURSIVE finishJob(_, _, _)
RECURSIVE sendJob(_, _, _, _)
RECURSIVE animSend(_, _, _)
RECURSIVE animResume(_, _, _)
RECURSIVE runDefaultAmbient(_, _)
RECURSIVE loginFloor(_, _, _)
RECURSIVE loginResume(_, _, _)
RECURSIVE lightResume(_, _, _)

\* processQueue(), up to its first suspension
processQueue(s) ==
  IF processQueueReturns(s.processing, s.commandQueue, s.isOpen) THEN s
  ELSE LET d == shift(s.commandQueue)
           j == d.job
           s1 == [s EXCEPT !.processing = TRUE, !.commandQueue = d.rest]
       IN  IF s1.simulationMode
           THEN [emitSent(s1, j, TRUE) EXCEPT
                   !.jobs[j].status = "simAck",
                   !.jobs[j].written = Len(s1.jobs[j].data),
                   !.wire = @ \o s1.jobs[j].data]
           ELSE IF s1.port = "null"
                \* this.port.write on null throws inside the promise: catch
                THEN finishJob(s1, j, FALSE)
                ELSE [s1 EXCEPT !.jobs[j].status = "writing"]

\* processQueue() after the write: resolve()/reject(), processing = false, the
\* wait before the next job when one is queued; then the caller awaiting the
\* job continues
finishJob(s, j, ok) ==
  LET s1 == [s EXCEPT !.jobs[j].status = IF ok THEN "resolved" ELSE "rejected",
                      !.processing = FALSE,
                      !.gapTimers = IF Len(s.commandQueue) > 0 THEN @ + 1 ELSE @]
      p == s.jobs[j].producer
  IN  IF p = "anim" THEN animResume(s1, s.jobs[j].owner, ok)
      ELSE IF p = "login" THEN loginResume(s1, s.jobs[j].owner, ok)
      ELSE IF p = "light" THEN lightResume(s1, s.jobs[j].owner, ok)
      ELSE s1

\* send(data) pushing the job onto the queue twice
sendJobTwice(s, data, producer, owner) ==
  LET j == Len(s.jobs) + 1
  IN  processQueue([s EXCEPT !.jobs = Append(@, NewJob(data, producer, owner)),
                             !.commandQueue = Append(Append(@, j), j)])

\* send(data)
sendJob(s, data, producer, owner) ==
  LET j == Len(s.jobs) + 1
  IN  processQueue([s EXCEPT !.jobs = Append(@, NewJob(data, producer, owner)),
                             !.commandQueue = Append(@, j)])

\* executeStep from its k-th packet on, and what runStep / runStaticSequence do
\* after it, in the engine's r-th sequence routine
animSend(s, r, k) ==
  LET pkts == stepPackets(StepsOf(s.ambientSequence)[s.anim[r].step])
  IN  IF k <= Len(pkts)
      THEN sendJob([s EXCEPT !.anim[r].pc = "step", !.anim[r].idx = k], pkts[k], "anim", r)
      ELSE IF TypeOf(s.ambientSequence) = "static"
           THEN [s EXCEPT !.anim[r].pc = "held", !.anim[r].first = FALSE]
           ELSE [s EXCEPT !.stepIndex = (@ + 1) % Len(StepsOf(s.ambientSequence)),
                          !.sequenceTimer = r,
                          !.anim[r].pc = "timer",
                          !.anim[r].first = FALSE]

\* runDefaultAmbient()
runDefaultAmbient(s, r) ==
  sendJob([s EXCEPT !.running = TRUE, !.anim[r].pc = "default", !.anim[r].first = FALSE],
          packetLevel(BROADCAST_ADDRESS, default_intensity), "anim", r)

\* the engine's r-th routine continues after the send it awaited
animResume(s, r, ok) ==
  IF s.anim[r].pc = "step"
  THEN IF ok THEN animSend(s, r, s.anim[r].idx + 1)
       ELSE IF s.anim[r].first THEN runDefaultAmbient(s, r)   \* catch of startAmbient
            ELSE exit(s)                                      \* unhandled rejection
  ELSE IF ok THEN [s EXCEPT !.anim[r].pc = "held"]
       ELSE exit(s)

\* runStep of runLoopSequence, in the engine's r-th routine
runStep(s, r) ==
  IF ~s.running THEN [s EXCEPT !.anim[r].pc = "none"]
  ELSE animSend([s EXCEPT !.anim[r].step = s.stepIndex + 1], r, 1)

\* startAmbient(): a call that gets past the test of this.running begins a
\* new routine
startAmbient(s) ==
  IF s.running THEN s
  ELSE LET r == Len(s.anim) + 1
           s0 == [s EXCEPT !.anim = Append(@, [pc |-> "none", idx |-> 0, step |-> 1,
                                               first |-> FALSE])]
       IN  IF s.ambientSequence = NULL THEN runDefaultAmbient(s0, r)
           ELSE LET s1 == [s0 EXCEPT !.running = TRUE, !.stepIndex = 0,
                                     !.anim[r].first = TRUE]
                IN  IF TypeOf(s.ambientSequence) = "static"
                    THEN animSend([s1 EXCEPT !.anim[r].step = 1], r, 1)
                    ELSE runStep(s1, r)

\* POST /login: what follows the last fixture of a floor
loginEndOfFloor(s, i, floor) ==
  IF floor > getFloorRange.min_floor
  THEN [s EXCEPT !.logins[i].pc = "delay", !.logins[i].floor = floor]
  ELSE [s EXCEPT !.logins[i].pc = "done", !.logins[i].floor = floor]

\* POST /login: the body of the floor loop from the start of a floor
loginFloor(s, i, floor) ==
  LET targets == loginTargets(floor)
  IN  IF targets = <<>> THEN loginEndOfFloor(s, i, floor)
      ELSE sendJob([s EXCEPT !.logins[i] =
                      [pc |-> "await", floor |-> floor, rest |-> Tail(targets)]],
                   loginPacket(Head(targets)), "login", i)

\* POST /login continues after the send it awaited
loginResume(s, i, ok) ==
  IF ~ok THEN [s EXCEPT !.logins[i].pc = "failed"]
  ELSE IF s.logins[i].rest = <<>> THEN loginEndOfFloor(s, i, s.logins[i].floor)
  ELSE sendJob([s EXCEPT !.logins[i].rest = Tail(@)],
               loginPacket(Head(s.logins[i].rest)), "login", i)

(***************************************************************************)
(* validation middleware, part_001 : apartments routes,                    *)
(* part_002 : floorplates routes                                           *)
(***************************************************************************)
VALID_STATES == {"SOLD", "AVAILABLE", "UNAVAILABLE", "SELECTED", "RESERVED", "OFF"}

\* rows of the state_colors table as the schema seeds them
StateColors ==
  [state \in VALID_STATES |->
     IF state = "SOLD" THEN [red |-> 255, green |-> 0, blue |-> 0, intensity |-> 200]
     ELSE IF state = "AVAILABLE" THEN [red |-> 0, green |-> 255, blue |-> 0, intensity |-> 200]
     ELSE IF state = "UNAVAILABLE" THEN [red |-> 180, green |-> 80, blue |-> 0, intensity |-> 200]
     ELSE IF state = "SELECTED" THEN [red |-> 255, green |-> 255, blue |-> 255, intensity |-> 255]
     ELSE IF state = "RESERVED" THEN [red |-> 255, green |-> 255, blue |-> 0, intensity |-> 200]
     ELSE [red |-> 0, green |-> 0, blue |-> 0, intensity |-> 0]]

\* an optional number of a request body: <<>> when absent, <<n>> when given
Or(optional, default) == IF optional = <<>> THEN default ELSE optional[1]

\* getStateColor of the apartments routes (no rgb given); intensity <<>> when
\* the state has no row
getStateColor(state) ==
  IF state \in DOMAIN StateColors
  THEN [r |-> StateColors[state].red, g |-> StateColors[state].green,
        b |-> StateColors[state].blue, intensity |-> <<StateColors[state].intensity>>]
  ELSE [r |-> 255, g |-> 255, b |-> 255, intensity |-> <<>>]

\* getStateColor of the floorplates routes
getStateColorFloorplate(state) ==
  IF state \in DOMAIN StateColors
  THEN [r |-> StateColors[state].red, g |-> StateColors[state].green,
        b |-> StateColors[state].blue, intensity |-> <<StateColors[state].intensity>>]
  ELSE [r |-> 255, g |-> 255, b |-> 255, intensity |-> <<200>>]

\* scaledR, scaledG, scaledB for a colour and the intensity of the request
scaled(color, intensity) ==
  LET actualIntensity == Or(intensity, Or(color.intensity, default_intensity))
  IN  [r |-> scale(color.r, actualIntensity), g |-> scale(color.g, actualIntensity),
       b |-> scale(color.b, actualIntensity)]

packetRgbFade(address, red, green, blue) ==
  buildPacket(buildRgbFadeCommand(address, red, green, blue))

\* packetRgbFadeToColor with the default currentColor {0, 0, 0}
packetRgbFadeToColor(address, red, green, blue, fadeTimeMs) ==
  LET redParams == calculateFadeParams(0, red, fadeTimeMs)
      greenParams == calculateFadeParams(0, green, fadeTimeMs)
      blueParams == calculateFadeParams(0, blue, fadeTimeMs)
  IN  packetRgbFade(address,
        [level |-> red, interval |-> redParams.interval, step |-> redParams.step],
        [level |-> green, interval |-> greenParams.interval, step |-> greenParams.step],
        [level |-> blue, interval |-> blueParams.interval, step |-> blueParams.step])

\* the packet the lighting routes build for one address
lightPacket(address, c, actualFadeTime) ==
  IF actualFadeTime > 0
  THEN packetRgbFadeToColor(address, c.r, c.g, c.b, actualFadeTime)
  ELSE packetRgbLevel(address, c.r, c.g, c.b)

ApartmentIds == {Apartments[i].id : i \in 1..Len(Apartments)}

\* database.apartments.get(id), for an id that has a row
apartmentsGet(id) == Apartments[CHOOSE i \in 1..Len(Apartments) : Apartments[i].id = id]

RECURSIVE SelectIds(_, _)
SelectIds(rows, floorplateId) ==
  IF rows = <<>> THEN <<>>
  ELSE LET rest == SelectIds(Tail(rows), floorplateId)
       IN  IF SqlEq(Head(rows).floorplate_id, floorplateId)
           THEN <<Head(rows).id>> \o rest ELSE rest

\* database.apartments.getByFloorplate(floorplateId), as apartment ids
getByFloorplate(floorplateId) == SelectIds(Apartments, floorplateId)

RECURSIVE SelectLights(_, _)
SelectLights(rows, apartmentId) ==
  IF rows = <<>> THEN <<>>
  ELSE LET rest == SelectLights(Tail(rows), apartmentId)
       IN  IF Head(rows).apartment_id = apartmentId
           THEN <<Head(rows).lightswarm_address>> \o rest ELSE rest

getApartmentAddressesZeroIsUsable(apartmentId, primaryAddress) ==
  LET lightRows == SelectLights(ApartmentLights, apartmentId)
  IN  IF Len(lightRows) > 0 THEN lightRows
      ELSE <<primaryAddress>>

\* getApartmentAddresses: 0 and NULL are falsy primary addresses
getApartmentAddresses(apartmentId, primaryAddress) ==
  LET lightRows == SelectLights(ApartmentLights, apartmentId)
  IN  IF Len(lightRows) > 0 THEN lightRows
      ELSE IF primaryAddress # 0 THEN <<primaryAddress>>
      ELSE <<>>

\* database.apartments.updateState(id, state)
updateState(s, id, state) == [s EXCEPT !.current_state[id] = state]

\* the PUT routes of the apartments router in the order they are registered
ApartmentPutRoutes == <<"/:id", "/batch">>

\* the PUT routes of the floorplates router in the order they are registered
FloorplatePutRoutes == <<"/:id", "/batch">>

\* a path of one segment against a route pattern
Matches(pattern, segment) == pattern = "/:id" \/ pattern = "/" \o segment

\* express: the first registered route whose pattern matches handles the request
FirstMatch(routes, segment) ==
  routes[CHOOSE i \in 1..Len(routes) :
           /\ Matches(routes[i], segment)
           /\ \A k \in 1..(i - 1) : ~Matches(routes[k], segment)]

Respond(s, q, status) == [s EXCEPT !.requests[q].status = status]

RECURSIVE lightSend(_, _, _)
RECURSIVE batchItem(_, _)
RECURSIVE floorplateSend(_, _, _)

\* PUT /batch: the loop body has ended for the current item
batchNext(s, q) == batchItem([s EXCEPT !.requests[q].i = @ + 1], q)

\* lightApartment returned to its caller
lightReturned(s, q) ==
  IF s.requests[q].route = "/:id" THEN Respond([s EXCEPT !.requests[q].count = 1], q, 200)
  ELSE batchNext([s EXCEPT !.requests[q].count = @ + 1], q)

\* lightApartment threw: next(err) in PUT /:id, errors.push in PUT /batch
lightThrown(s, q, message) ==
  IF s.requests[q].route = "/:id"
  THEN Respond([s EXCEPT !.requests[q].error = message], q, 500)
  ELSE batchNext([s EXCEPT !.requests[q].errors =
                    Append(@, [id |-> s.requests[q].items[s.requests[q].i],
                               error |-> message])], q)

\* lightApartment from its k-th address on
lightSend(s, q, k) ==
  LET req == s.requests[q]
      id == req.items[req.i]
  IN  IF k <= Len(req.addresses)
      THEN sendJob([s EXCEPT !.requests[q].k = k],
                   lightPacket(req.addresses[k], req.color, req.fadeTime),
                   "light", [req |-> q, apt |-> id])
      ELSE lightReturned(updateState(s, id, req.state), q)

\* lightApartment(serial, apartment, state, options) for the current item
lightApartment(s, q) ==
  LET req == s.requests[q]
      apartment == apartmentsGet(req.items[req.i])
      addresses == getApartmentAddresses(apartment.id, apartment.lightswarm_address)
      color == getStateColor(req.state)
      s1 == [s EXCEPT !.requests[q].addresses = addresses,
                      !.requests[q].color = scaled(color, <<>>)]
  IN  IF Len(addresses) = 0 THEN lightThrown(s1, q, "No light addresses assigned to apartment")
      ELSE lightSend(s1, q, 1)

\* PUT /batch: the loop over req.body.apartments from the current item on
batchItem(s, q) ==
  LET req == s.requests[q]
  IN  IF req.i > Len(req.items) THEN Respond(s, q, 200)
      ELSE IF req.items[req.i] \notin ApartmentIds
           THEN batchNext([s EXCEPT !.requests[q].errors =
                             Append(@, [id |-> req.items[req.i], error |-> "Not found"])], q)
           ELSE lightApartment(s, q)

\* PUT /floorplates/:id: the loop over the apartments from the i-th on
floorplateSend(s, q, i) ==
  LET req == s.requests[q]
  IN  IF i <= Len(req.items)
      THEN sendJob([s EXCEPT !.requests[q].i = i],
                   lightPacket(apartmentsGet(req.items[i]).lightswarm_address,
                               req.color, req.fadeTime),
                   "light", [req |-> q, apt |-> req.items[i]])
      ELSE Respond([s EXCEPT !.requests[q].count = Len(req.items)], q, 200)

\* a lighting route continues after the send it awaited
lightResume(s, owner, ok) ==
  LET q == owner.req
      req == s.requests[q]
  IN  IF req.router = "floorplates"
      THEN IF ok THEN floorplateSend(updateState(s, req.items[req.i], req.state), q, req.i + 1)
           ELSE Respond([s EXCEPT !.requests[q].error = "send rejected"], q, 500)
      ELSE IF ok THEN lightSend(s, q, req.k + 1)
           ELSE lightThrown(s, q, "send rejected")

\* a request as its handler sees it
NewRequest(router, route, segment, body) ==
  [router |-> router, route |-> route, segment |-> segment, body |-> body,
   state |-> IF body.state = NULL THEN "SELECTED" ELSE body.state,
   fadeTime |-> Or(body.fadeTime, default_fade_time_ms),
   items |-> <<>>, i |-> 1, addresses |-> <<>>, k |-> 0,
   color |-> [r |-> 0, g |-> 0, b |-> 0],
   status |-> 0, count |-> 0, error |-> NULL, errors |-> <<>>]

\* PUT /api/v1/apartments/<segment>: validation middleware and handler of the
\* route that matches first
putApartments(s, segment, body) ==
  LET route == FirstMatch(ApartmentPutRoutes, segment)
      q == Len(s.requests) + 1
      s1 == [s EXCEPT !.requests = Append(@, NewRequest("apartments", route, segment, body))]
  IN  IF route = "/:id"
      THEN IF body.state # NULL /\ body.state \notin VALID_STATES THEN Respond(s1, q, 400)
           ELSE IF segment \notin ApartmentIds THEN Respond(s1, q, 404)
           ELSE lightApartment([s1 EXCEPT !.requests[q].items = <<segment>>], q)
      ELSE IF Len(body.apartments) < 1 THEN Respond(s1, q, 400)
           ELSE batchItem([s1 EXCEPT !.requests[q].items = body.apartments], q)

\* PUT /api/v1/floorplates/<segment>: every path of one segment is handled by
\* the route '/:id', which is registered first
putFloorplates(s, segment, body) ==
  LET route == FirstMatch(FloorplatePutRoutes, segment)
      q == Len(s.requests) + 1
      s1 == [s EXCEPT !.requests = Append(@, NewRequest("floorplates", route, segment, body))]
      color == getStateColorFloorplate(s1.requests[q].state)
  IN  IF segment \notin Floorplates THEN Respond(s1, q, 404)
      ELSE floorplateSend([s1 EXCEPT !.requests[q].items = getByFloorplate(segment),
                                     !.requests[q].color = scaled(color, <<>>)], q, 1)

(***************************************************************************)
(* Call specification: the command builders, the address packing and the   *)
(* fade planner applied to bounded inputs                                  *)
(***************************************************************************)
\* numbers given as levels, intervals, steps and fade times: below, inside,
\* on the edges of and above the legal ranges
CallNumbers == {0 - 1, 0, 1, 64, 100, 127, 128, 255, 256, 300, 500, 5000}

\* numbers given as addresses
CallAddresses == {0 - 1, 0, 5, 100, 192, 256, 65535, 65536}

Returned(value) == [thrown |-> FALSE, value |-> value]

\* a builder that spreads addressToBytes(address): the throw propagates
Built(address, value) ==
  IF invalidAddress(address) THEN [thrown |-> TRUE, value |-> <<>>]
  ELSE Returned(value)

CallInit ==
  /\ callArgs \in [address : CallAddresses, x : CallNumbers, y : CallNumbers,
                   z : CallNumbers]
  /\ callPc = "input"
  /\ callResult = <<>>
  /\ codecIn = <<>>
  /\ codecPc = "input"
  /\ encoded = <<>>
  /\ decoded = <<>>
  /\ packet = <<>>
  /\ ProgIdle

Call(name, result) ==
  /\ callPc = "input"
  /\ callPc' = name
  /\ callResult' = result
  /\ UNCHANGED <<callArgs, codecVars, progVars>>

DoAddress ==
  Call("address",
       Built(callArgs.address,
             [bytes |-> addressToBytes(callArgs.address),
              address |-> bytesToAddress(addressToBytes(callArgs.address))]))

DoLevel ==
  Call("level", Built(callArgs.address,
                      buildLevelCommand(callArgs.address, callArgs.x)))

DoFade ==
  Call("fade", Built(callArgs.address,
                     buildFadeCommand(callArgs.address, callArgs.x, callArgs.y,
                                      callArgs.z)))

DoRgbLevel ==
  Call("rgbLevel", Built(callArgs.address,
                         buildRgbLevelCommand(callArgs.address, callArgs.x,
                                              callArgs.y, callArgs.z)))

\* the three channels get the three numbers in rotated roles
DoRgbFade ==
  Call("rgbFade",
       Built(callArgs.address,
             buildRgbFadeCommand(
               callArgs.address,
               [level |-> callArgs.x, interval |-> callArgs.y, step |-> callArgs.z],
               [level |-> callArgs.y, interval |-> callArgs.z, step |-> callArgs.x],
               [level |-> callArgs.z, interval |-> callArgs.x, step |-> callArgs.y])))

\* calculateFadeParams(currentLevel, targetLevel, fadeTimeMs) on levels and a
\* fade time the callers can pass
DoFadeParams ==
  /\ callArgs.x \in 0..255
  /\ callArgs.y \in 0..255
  /\ callArgs.z >= 0
  /\ Call("fadeParams",
          Returned(calculateFadeParams(callArgs.x, callArgs.y, callArgs.z)))

\* the channel scaling of lightApartment and of the floorplate routes, on a
\* colour channel and an intensity that passed validation
DoScale ==
  /\ callArgs.x \in 0..255
  /\ callArgs.y \in 0..255
  /\ Call("scale", Returned(scale(callArgs.x, callArgs.y)))

\* buildOnCommand(address) and the packet packetOn(address) frames from it
DoOn ==
  Call("on", Built(callArgs.address,
                   [command |-> buildOnCommand(callArgs.address),
                    packet |-> packetOn(callArgs.address)]))

DoOff ==
  Call("off", Built(callArgs.address,
                    [command |-> buildOffCommand(callArgs.address),
                     packet |-> packetOff(callArgs.address)]))

\* packetRgbLevel(address, red, green, blue)
DoPacketRgbLevel ==
  Call("packetRgbLevel",
       Built(callArgs.address,
             packetRgbLevel(callArgs.address, callArgs.x, callArgs.y, callArgs.z)))

\* buildFlashCommand with levels x and y, z flash steps, intervals y and z
DoFlash ==
  Call("flash", Built(callArgs.address,
                      buildFlashCommand(callArgs.address, callArgs.x, callArgs.y,
                                        callArgs.z, callArgs.y, callArgs.z)))

\* a fade from level x to level y in z ms, planned and built as the callers
\* of calculateFadeParams do
DoFadeTo ==
  /\ callArgs.x \in 0..255
  /\ callArgs.y \in 0..255
  /\ callArgs.z >= 0
  /\ LET fadeParams == calculateFadeParams(callArgs.x, callArgs.y, callArgs.z)
     IN  Call("fadeTo",
              Built(callArgs.address,
                    buildFadeCommand(callArgs.address, callArgs.y,
                                     fadeParams.interval, fadeParams.step)))

CallNext ==
  \/ DoOn
  \/ DoOff
  \/ DoPacketRgbLevel
  \/ DoFlash
  \/ DoAddress
  \/ DoLevel
  \/ DoFade
  \/ DoRgbLevel
  \/ DoRgbFade
  \/ DoFadeParams
  \/ DoFadeTo
  \/ DoScale

SpecCalls == CallInit /\ [][CallNext]_vars

(***************************************************************************)
(* Actions: index.js initialize()                                          *)
(***************************************************************************)
\* [3/5]: the simulator is created and enabled as the transport's mode says
initSimulator(s) ==
  [s EXCEPT !.lights = initializeFromDatabase,
            !.simEnabled = s.simulationMode,
            !.phase = "listening"]

\* [2/5] await serialConnection.connect()
InitConnect ==
  /\ phase = "boot"
  /\ Becomes(IF simulationMode
             THEN initSimulator(connect(Cur))
             ELSE [connect(Cur) EXCEPT !.phase = "connecting"])

\* the port's 'open' handler; at start-up connect() then returns
PortOpened ==
  /\ phase \in {"connecting", "listening", "running"}
  /\ port = "opening"
  /\ LET s1 == processQueue([Cur EXCEPT !.port = "open", !.isOpen = TRUE,
                                        !.reconnectAttempts = 0])
     IN  Becomes(IF phase = "connecting" THEN initSimulator(s1) ELSE s1)

\* port.open fails: at start-up the fallback to simulation mode, in the
\* reconnect timer another attemptReconnect()
PortOpenFailed ==
  /\ phase \in {"connecting", "listening", "running"}
  /\ port = "opening"
  /\ LET s1 == [Cur EXCEPT !.port = "closed"]
     IN  Becomes(IF phase = "connecting"
                 THEN initSimulator([s1 EXCEPT !.simulationMode = TRUE, !.isOpen = TRUE])
                 ELSE attemptReconnect(s1))

\* [4/5] the server listens, [5/5] the animation engine is created and started
InitListen ==
  /\ phase = "listening"
  /\ LET s1 == [Cur EXCEPT !.phase = "running"]
     IN  Becomes(IF ambientEnabled THEN startAmbient(s1) ELSE s1)

(***************************************************************************)
(* Actions: SerialConnection                                               *)
(***************************************************************************)
\* the port's 'close' handler after a spontaneous close
PortClosed ==
  /\ phase \in {"listening", "running"}
  /\ port = "open"
  /\ Becomes(attemptReconnect([Cur EXCEPT !.port = "closed", !.isOpen = FALSE]))

\* the setTimeout callback of attemptReconnect
ReconnectTimerFires ==
  /\ phase \in {"listening", "running"}
  /\ reconnectTimers > 0
  /\ Becomes(connect([Cur EXCEPT !.reconnectTimers = @ - 1]))

\* PUT /serial/simulation
SetSimulationMode ==
  /\ phase = "running"
  /\ \E enabled \in BOOLEAN :
       /\ enabled # simulationMode
       /\ Becomes([Cur EXCEPT !.simulationMode = enabled])

\* a caller that awaits send(data) and does nothing else with the transport
Send(data) ==
  /\ phase = "running"
  /\ Len(jobs) < MaxJobs
  /\ Becomes(sendJob(Cur, data, "route", 0))

\* the port takes the next byte of the job being written
WriteByte ==
  /\ phase \in {"listening", "running", "stopping"}
  /\ port = "open"
  /\ \E j \in 1..Len(jobs) :
       /\ jobs[j].status = "writing"
       /\ jobs[j].written < Len(jobs[j].data)
       /\ Becomes([Cur EXCEPT !.jobs[j].written = @ + 1,
                              !.wire = Append(@, jobs[j].data[jobs[j].written + 1])])

\* write and drain called back without error
WriteDrained ==
  /\ phase \in {"listening", "running", "stopping"}
  /\ port = "open"
  /\ \E j \in 1..Len(jobs) :
       /\ jobs[j].status = "writing"
       /\ jobs[j].written = Len(jobs[j].data)
       /\ Becomes(finishJob(emitSent(Cur, j, FALSE), j, TRUE))

\* write or drain called back with an error
WriteFailed ==
  /\ phase \in {"listening", "running", "stopping"}
  /\ \E j \in 1..Len(jobs) :
       /\ jobs[j].status = "writing"
       /\ Becomes(finishJob(Cur, j, FALSE))

\* simulation mode: delay(5) has elapsed
SimAck ==
  /\ phase \in {"listening", "running", "stopping"}
  /\ \E j \in 1..Len(jobs) :
       /\ jobs[j].status = "simAck"
       /\ Becomes(finishJob(Cur, j, TRUE))

\* delay(10) has elapsed: processQueue() is called again
GapTimerFires ==
  /\ phase \in {"listening", "running", "stopping"}
  /\ gapTimers > 0
  /\ Becomes(processQueue([Cur EXCEPT !.gapTimers = @ - 1]))

(***************************************************************************)
(* Actions: session routes, settings, animation timer                      *)
(***************************************************************************)
\* POST /login up to its first suspension
Login ==
  /\ phase = "running"
  /\ Len(logins) < MaxLogins
  /\ Len(sessionLog) < MaxSessionEvents
  /\ LET i == Len(logins) + 1
         s1 == [Cur EXCEPT !.sessionLog = Append(@, "login"),
                           !.logins = Append(@, [pc |-> "start",
                                                 floor |-> getFloorRange.max_floor,
                                                 rest |-> <<>>])]
         s2 == IF routeEngine # NULL THEN stopAmbient(s1) ELSE s1
     IN  Becomes(loginFloor(s2, i, getFloorRange.max_floor))

\* POST /login: the delay between two floors has elapsed
LoginDelayElapsed ==
  /\ phase = "running"
  /\ \E i \in 1..Len(logins) :
       /\ logins[i].pc = "delay"
       /\ Becomes(loginFloor(Cur, i, logins[i].floor - 1))

\* POST /logout
Logout ==
  /\ phase = "running"
  /\ Len(sessionLog) < MaxSessionEvents
  /\ LET s1 == [Cur EXCEPT !.sessionLog = Append(@, "logout")]
     IN  Becomes(IF routeEngine # NULL THEN startAmbient(s1) ELSE s1)

\* the clock of CURRENT_TIMESTAMP moves on to the next second: rows added from
\* now on get a later timestamp than the rows before
SecondPasses ==
  /\ phase = "running"
  /\ Len(sessionLog) < MaxSessionEvents
  /\ Len(sessionLog) > 0
  /\ Last(sessionLog) # "tick"
  /\ Becomes([Cur EXCEPT !.sessionLog = Append(@, "tick")])

\* PUT /settings with the key ambient_enabled
SetAmbientEnabled ==
  /\ phase = "running"
  /\ \E enabled \in BOOLEAN :
       /\ enabled # ambientEnabled
       /\ Becomes([Cur EXCEPT !.ambientEnabled = enabled])

\* the sequenceTimer callback (runStep of a loop sequence)
AnimTimerFires ==
  /\ phase \in {"running", "stopping"}
  /\ Len(jobs) < MaxFrames
  /\ \E r \in 1..Len(anim) :
       /\ anim[r].pc = "timer"
       /\ Becomes(runStep(Cur, r))

\* a call of the engine's startAmbient(), as POST /logout makes it on the
\* engine it was given; a no-op while running
StartAmbient ==
  /\ phase = "running"
  /\ running \/ Len(anim) < MaxRoutines
  /\ Becomes(startAmbient(Cur))

\* a call of the engine's stopAmbient(), as POST /login makes it on the engine
\* it was given
StopAmbient ==
  /\ phase = "running"
  /\ Becomes(stopAmbient(Cur))

\* the port's 'error' handler: this.emit('error', err) on an emitter that has
\* no 'error' listener throws, and the uncaughtException handler exits
PortError ==
  /\ phase \in {"listening", "running", "stopping"}
  /\ port = "open"
  /\ Becomes(exit(Cur))

\* SIGINT / SIGTERM: shutdown() up to the await of serialConnection.close().
\* The engine exists once initialize() has created it; close() returns at
\* once in simulation mode or without an open transport, and shutdown() then
\* runs on to process.exit(0); otherwise it waits for the callback of
\* port.close.
Shutdown ==
  /\ phase \in {"connecting", "listening", "running"}
  /\ LET s1 == IF phase = "running" THEN stopAmbient(Cur) ELSE Cur
     IN  Becomes(IF s1.simulationMode THEN exit([s1 EXCEPT !.isOpen = FALSE])
                 ELSE IF s1.port # "null" /\ s1.isOpen
                      THEN [s1 EXCEPT !.phase = "stopping"]
                      ELSE exit(s1))

\* port.close calls back: the port's 'close' handler if the port was open,
\* isOpen = false, and the rest of shutdown()
ShutdownDone ==
  /\ phase = "stopping"
  /\ Becomes(exit(IF port = "open"
                  THEN attemptReconnect([Cur EXCEPT !.port = "closed", !.isOpen = FALSE])
                  ELSE [Cur EXCEPT !.isOpen = FALSE]))

\* POST /serial/reconnect up to its first suspension: close() returns at once
\* in simulation mode or without an open port and connect() follows;
\* otherwise the route waits for the callback of port.close
SerialReconnect ==
  /\ phase = "running"
  /\ port # "closing"
  /\ reconnectTimers < MaxReconnects
  /\ Becomes(IF simulationMode THEN connect([Cur EXCEPT !.isOpen = FALSE])
             ELSE IF port # "null" /\ isOpen
                  THEN IF port = "open" THEN [Cur EXCEPT !.port = "closing"]
                       ELSE connect([Cur EXCEPT !.isOpen = FALSE])
             ELSE connect(Cur))

\* port.close calls back: the port's 'close' handler, isOpen = false, and the
\* route goes on to connect()
SerialReconnectClosed ==
  /\ port = "closing"
  /\ Becomes(connect(attemptReconnect([Cur EXCEPT !.port = "closed", !.isOpen = FALSE])))

(***************************************************************************)
(* Specifications                                                          *)
(***************************************************************************)
\* buffers a caller may hand to send() (POST /test/raw takes any bytes)
RawBuffers == {<<1, 2>>, <<3, 4>>}

SendRaw == \E data \in RawBuffers : Send(data)

TransportInit ==
  /\ CodecIdle
  /\ phase = "boot"
  /\ simulationMode \in BOOLEAN
  /\ isOpen = FALSE
  /\ port = "null"
  /\ commandQueue = <<>>
  /\ processing = FALSE
  /\ reconnectAttempts = 0
  /\ reconnectTimers = 0
  /\ reconnectWait = 0
  /\ gapTimers = 0
  /\ jobs = <<>>
  /\ wire = <<>>
  /\ sent = <<>>
  /\ simEnabled = FALSE
  /\ lights = initializeFromDatabase
  /\ ambientEnabled = FALSE
  /\ ambientSequence = "default_ambient"
  /\ sessionLog = <<>>
  /\ routeEngine = NULL
  /\ running = FALSE
  /\ sequenceTimer = 0
  /\ stepIndex = 0
  /\ anim = <<>>
  /\ logins = <<>>
  /\ current_state = seededStates
  /\ requests = <<>>

TransportNext ==
  \/ InitConnect
  \/ PortOpened
  \/ PortOpenFailed
  \/ InitListen
  \/ PortClosed
  \/ ReconnectTimerFires
  \/ SetSimulationMode
  \/ SendRaw
  \/ WriteByte
  \/ WriteDrained
  \/ WriteFailed
  \/ SimAck
  \/ GapTimerFires

SpecTransport == TransportInit /\ [][TransportNext]_vars


(***************************************************************************)
(* Actions: lighting routes                                                *)
(***************************************************************************)
\* the state a client may put in a body: absent, a valid one, an unknown one
BodyStates == {NULL, "SOLD", "UNAVAILABLE", "PURPLE"}

\* the fadeTime a client may put in a body: absent or 0
BodyFadeTimes == {<<>>, <<0>>}

\* the apartments array of a batch body
BodyApartments == <<"T1-0901", "T1-1002", "T9-0000", "T1-1001">>

\* PUT /api/v1/apartments/<segment> up to its first suspension
PutApartment ==
  /\ phase = "running"
  /\ Len(requests) < MaxRequests
  /\ Len(jobs) < MaxFrames
  /\ \E segment \in ApartmentIds \cup {"T9-0000", "batch"}, state \in BodyStates,
        fadeTime \in BodyFadeTimes :
       Becomes(putApartments(Cur, segment,
                 [state |-> state, fadeTime |-> fadeTime,
                  apartments |-> IF segment = "batch" THEN BodyApartments ELSE <<>>]))

\* PUT /api/v1/floorplates/<segment> up to its first suspension
PutFloorplate ==
  /\ phase = "running"
  /\ Len(requests) < MaxRequests
  /\ Len(jobs) < MaxFrames
  /\ \E segment \in Floorplates \cup {"batch"}, state \in BodyStates,
        fadeTime \in BodyFadeTimes :
       Becomes(putFloorplates(Cur, segment,
                 [state |-> state, fadeTime |-> fadeTime, apartments |-> <<>>]))
\* the session routes beside the ambient engine and a route that sends, on a
\* deployment configured for simulation mode
SessionInit ==
  /\ CodecIdle
  /\ phase = "boot"
  /\ simulationMode = TRUE
  /\ isOpen = FALSE
  /\ port = "null"
  /\ commandQueue = <<>>
  /\ processing = FALSE
  /\ reconnectAttempts = 0
  /\ reconnectTimers = 0
  /\ reconnectWait = 0
  /\ gapTimers = 0
  /\ jobs = <<>>
  /\ wire = <<>>
  /\ sent = <<>>
  /\ simEnabled = FALSE
  /\ lights = initializeFromDatabase
  /\ ambientEnabled \in BOOLEAN
  /\ ambientSequence \in {"default_ambient", "alert_flash", NULL}
  /\ sessionLog = <<>>
  /\ routeEngine = NULL
  /\ running = FALSE
  /\ sequenceTimer = 0
  /\ stepIndex = 0
  /\ anim = <<>>
  /\ logins = <<>>
  /\ current_state = seededStates
  /\ requests = <<>>

SessionNext ==
  \/ InitConnect
  \/ InitListen
  \/ Login
  \/ LoginDelayElapsed
  \/ Logout
  \/ SetAmbientEnabled
  \/ SendRaw
  \/ SimAck
  \/ GapTimerFires
  \/ AnimTimerFires

SpecSession == SessionInit /\ [][SessionNext]_vars

\* addresses and level the routes' packets are built for: a fixture with a
\* plain address, fixtures whose address holds a delimiter or escape byte,
\* and the broadcast address
SimAddresses == {5, 192, 219, BROADCAST_ADDRESS}

\* with them a fade, the two colour commands and a frame for address 7, which
\* no fixture has
SimPackets ==
  {packetOn(a) : a \in SimAddresses} \cup
  {packetOff(a) : a \in SimAddresses} \cup
  {packetLevel(a, 192) : a \in SimAddresses} \cup
  {packetFade(5, 100, 2, 5), packetRgbLevel(5, 255, 128, 0),
   packetRgbFadeToColor(5, 0, 64, 128, 500), packetOn(7)}

SendPacket == \E data \in SimPackets : Send(data)

\* byte strings POST /test/raw may send: a LEVEL without payload, an
\* RGB_LEVEL with one payload byte, an opcode the simulator does not know, a
\* short broadcast RGB_FADE, a frame too short to hold a command, and an ON
\* without delimiters
RawFrames ==
  {<<192, 0, 5, 34, 39, 192>>, <<192, 0, 5, 44, 255, 7, 192>>,
   <<192, 0, 5, 46, 1, 2, 192>>, <<192, 255, 255, 49, 9, 192>>,
   <<192, 0, 192>>, <<0, 5, 32, 37>>}

SendRawFrame == \E data \in RawFrames : Send(data)

\* POST /simulator/reset: resetAll()
ResetAll ==
  /\ phase = "running"
  /\ Becomes([Cur EXCEPT !.lights = [a \in DOMAIN @ |-> LightOff]])

SimInit ==
  /\ CodecIdle
  /\ phase = "boot"
  /\ simulationMode = TRUE
  /\ isOpen = FALSE
  /\ port = "null"
  /\ commandQueue = <<>>
  /\ processing = FALSE
  /\ reconnectAttempts = 0
  /\ reconnectTimers = 0
  /\ reconnectWait = 0
  /\ gapTimers = 0
  /\ jobs = <<>>
  /\ wire = <<>>
  /\ sent = <<>>
  /\ simEnabled = FALSE
  /\ lights = initializeFromDatabase
  /\ ambientEnabled = FALSE
  /\ ambientSequence = "default_ambient"
  /\ sessionLog = <<>>
  /\ routeEngine = NULL
  /\ running = FALSE
  /\ sequenceTimer = 0
  /\ stepIndex = 0
  /\ anim = <<>>
  /\ logins = <<>>
  /\ current_state = seededStates
  /\ requests = <<>>

SimNext ==
  \/ InitConnect
  \/ InitListen
  \/ SendPacket
  \/ SimAck
  \/ GapTimerFires

SpecSim == SimInit /\ [][SimNext]_vars

\* the simulator behind the built packets, the raw byte strings and the reset
SimRawNext ==
  \/ InitConnect
  \/ InitListen
  \/ SendPacket
  \/ SimAck
  \/ GapTimerFires
  \/ SendRawFrame
  \/ ResetAll

SpecSimRaw == SimInit /\ [][SimRawNext]_vars

(***************************************************************************)
(* Observer specification: jobs that change the fixture table, through the *)
(* port or the simulation sink, with the 'sent' observers attached         *)
(***************************************************************************)
ObservedPackets == {packetOn(5), packetOff(5)}

SendObserved == \E data \in ObservedPackets : Send(data)

ObserveInit == TransportInit

ObserveNext ==
  \/ InitConnect
  \/ PortOpened
  \/ PortOpenFailed
  \/ InitListen
  \/ SetSimulationMode
  \/ SendObserved
  \/ WriteByte
  \/ WriteDrained
  \/ WriteFailed
  \/ SimAck
  \/ GapTimerFires

SpecObserve == ObserveInit /\ [][ObserveNext]_vars

(***************************************************************************)
(* Engine specification: the ambient sequence on either sink, other        *)
(* traffic, and shutdown()                                                 *)
(***************************************************************************)
EngineInit ==
  /\ CodecIdle
  /\ phase = "boot"
  /\ simulationMode \in BOOLEAN
  /\ isOpen = FALSE
  /\ port = "null"
  /\ commandQueue = <<>>
  /\ processing = FALSE
  /\ reconnectAttempts = 0
  /\ reconnectTimers = 0
  /\ reconnectWait = 0
  /\ gapTimers = 0
  /\ jobs = <<>>
  /\ wire = <<>>
  /\ sent = <<>>
  /\ simEnabled = FALSE
  /\ lights = initializeFromDatabase
  /\ ambientEnabled \in BOOLEAN
  /\ ambientSequence \in {"default_ambient", "alert_flash", NULL}
  /\ sessionLog = <<>>
  /\ routeEngine = NULL
  /\ running = FALSE
  /\ sequenceTimer = 0
  /\ stepIndex = 0
  /\ anim = <<>>
  /\ logins = <<>>
  /\ current_state = seededStates
  /\ requests = <<>>

EngineNext ==
  \/ InitConnect
  \/ PortOpened
  \/ PortOpenFailed
  \/ InitListen
  \/ SendRaw
  \/ WriteByte
  \/ WriteDrained
  \/ WriteFailed
  \/ SimAck
  \/ GapTimerFires
  \/ AnimTimerFires
  \/ Shutdown
  \/ ShutdownDone

SpecEngine == EngineInit /\ [][EngineNext]_vars

(***************************************************************************)
(* Failure specification: the ambient sequence and other traffic on a port *)
(* that can fail, close and report errors                                  *)
(***************************************************************************)
FailureInit == EngineInit

FailureNext ==
  \/ InitConnect
  \/ PortOpened
  \/ PortOpenFailed
  \/ InitListen
  \/ SendRaw
  \/ WriteByte
  \/ WriteDrained
  \/ WriteFailed
  \/ SimAck
  \/ GapTimerFires
  \/ AnimTimerFires
  \/ PortClosed
  \/ ReconnectTimerFires
  \/ PortError

SpecFailure == FailureInit /\ [][FailureNext]_vars

(***************************************************************************)
(* Restart specification: the process starts on the database file the      *)
(* previous run left, with or without a login as its latest session event  *)
(***************************************************************************)
RestartInit ==
  /\ CodecIdle
  /\ phase = "boot"
  /\ simulationMode = TRUE
  /\ isOpen = FALSE
  /\ port = "null"
  /\ commandQueue = <<>>
  /\ processing = FALSE
  /\ reconnectAttempts = 0
  /\ reconnectTimers = 0
  /\ reconnectWait = 0
  /\ gapTimers = 0
  /\ jobs = <<>>
  /\ wire = <<>>
  /\ sent = <<>>
  /\ simEnabled = FALSE
  /\ lights = initializeFromDatabase
  /\ ambientEnabled \in BOOLEAN
  /\ ambientSequence \in {"default_ambient", "alert_flash", NULL}
  /\ sessionLog \in {<<>>, <<"login">>}
  /\ routeEngine = NULL
  /\ running = FALSE
  /\ sequenceTimer = 0
  /\ stepIndex = 0
  /\ anim = <<>>
  /\ logins = <<>>
  /\ current_state = seededStates
  /\ requests = <<>>

RestartNext ==
  \/ InitConnect
  \/ InitListen
  \/ Login
  \/ LoginDelayElapsed
  \/ Logout
  \/ SetAmbientEnabled
  \/ SendRaw
  \/ SimAck
  \/ GapTimerFires
  \/ AnimTimerFires

SpecRestart == RestartInit /\ [][RestartNext]_vars

(***************************************************************************)
(* Engine call specification: the AnimationEngine under calls of           *)
(* startAmbient and stopAmbient, with its sends and timers pending         *)
(***************************************************************************)
EngineCallInit == SessionInit

EngineCallNext ==
  \/ InitConnect
  \/ InitListen
  \/ StartAmbient
  \/ StopAmbient
  \/ SimAck
  \/ GapTimerFires
  \/ AnimTimerFires

SpecEngineCall == EngineCallInit /\ [][EngineCallNext]_vars


(***************************************************************************)
(* The lighting routes over the transport, simulated or live               *)
(***************************************************************************)
LightInit ==
  /\ CodecIdle
  /\ phase = "boot"
  /\ simulationMode \in BOOLEAN
  /\ isOpen = FALSE
  /\ port = "null"
  /\ commandQueue = <<>>
  /\ processing = FALSE
  /\ reconnectAttempts = 0
  /\ reconnectTimers = 0
  /\ reconnectWait = 0
  /\ gapTimers = 0
  /\ jobs = <<>>
  /\ wire = <<>>
  /\ sent = <<>>
  /\ simEnabled = FALSE
  /\ lights = initializeFromDatabase
  /\ ambientEnabled = FALSE
  /\ ambientSequence = "default_ambient"
  /\ sessionLog = <<>>
  /\ routeEngine = NULL
  /\ running = FALSE
  /\ sequenceTimer = 0
  /\ stepIndex = 0
  /\ anim = <<>>
  /\ logins = <<>>
  /\ current_state = seededStates
  /\ requests = <<>>

LightNext ==
  \/ InitConnect
  \/ PortOpened
  \/ PortOpenFailed
  \/ InitListen
  \/ PutApartment
  \/ PutFloorplate
  \/ Send(<<1, 2>>)
  \/ WriteByte
  \/ WriteDrained
  \/ WriteFailed
  \/ SimAck
  \/ GapTimerFires

SpecLight == LightInit /\ [][LightNext]_vars

(***************************************************************************)
(* The lighting routes over the simulated transport                        *)
(***************************************************************************)
LightSimInit ==
  /\ LightInit
  /\ simulationMode = TRUE

LightSimNext ==
  \/ InitConnect
  \/ InitListen
  \/ PutApartment
  \/ PutFloorplate
  \/ Send(<<1, 2>>)
  \/ SimAck
  \/ GapTimerFires

SpecLightSim == LightSimInit /\ [][LightSimNext]_vars

(***************************************************************************)
(* The transport with the admin reconnect operation                        *)
(***************************************************************************)
\* the buffers the callers of this specification pass to send()
AdminBuffers == {<<1, 2>>}

SendBuffer == \E data \in AdminBuffers : Send(data)

AdminNext ==
  \/ InitConnect
  \/ PortOpened
  \/ PortOpenFailed
  \/ InitListen
  \/ PortClosed
  \/ ReconnectTimerFires
  \/ SetSimulationMode
  \/ SerialReconnect
  \/ SerialReconnectClosed
  \/ SendBuffer
  \/ WriteByte
  \/ WriteDrained
  \/ WriteFailed
  \/ SimAck
  \/ GapTimerFires

SpecAdmin == TransportInit /\ [][AdminNext]_vars

(***************************************************************************)
(* The session routes and the clock of the session log                     *)
(***************************************************************************)
StatusNext ==
  \/ InitConnect
  \/ InitListen
  \/ Login
  \/ LoginDelayElapsed
  \/ Logout
  \/ SecondPasses
  \/ SimAck
  \/ AnimTimerFires

SpecStatus == SessionInit /\ [][StatusNext]_vars
(***************************************************************************)
(* Transport claims                                                        *)
(***************************************************************************)
\* the bytes each of the first k jobs has put on the wire, in the order of
\* the send() calls
RECURSIVE ConcatWritten(_, _)
ConcatWritten(js, k) ==
  IF k = 0 THEN <<>>
  ELSE ConcatWritten(js, k - 1) \o SubSeq(js[k].data, 1, js[k].written)

Settled(job) == job.status \in {"resolved", "rejected"}

\* the complete byte sequences of the first k jobs, in the order of the send()
\* calls
RECURSIVE ConcatData(_, _)
ConcatData(js, k) ==
  IF k = 0 THEN <<>> ELSE ConcatData(js, k - 1) \o js[k].data

\* C1: for any interleaving of send() calls the bytes written to the device
\* are the concatenation of the jobs' byte sequences in the order of the send()
\* calls: jobs start and complete in enqueue order, every job that was written
\* is on the wire completely, and no byte of a later job precedes the last
\* byte of an earlier job (a job whose write fails is rejected to its caller
\* and leaves only the bytes the port took).
C1_Fifo ==
  /\ wire = ConcatWritten(jobs, Len(jobs))
  /\ (\A j \in 1..Len(jobs) : jobs[j].status = "resolved")
       => wire = ConcatData(jobs, Len(jobs))
  /\ \A j \in 1..Len(jobs) :
       /\ jobs[j].status = "resolved" => jobs[j].written = Len(jobs[j].data)
       /\ jobs[j].status = "queued" => jobs[j].written = 0
       /\ \A i \in 1..(j - 1) :
            jobs[j].status # "queued" => Settled(jobs[i])
  /\ \A k \in 1..Len(commandQueue) :
       /\ jobs[commandQueue[k]].status = "queued"
       /\ k > 1 => commandQueue[k - 1] < commandQueue[k]
  /\ \A k \in 1..Len(sent) :
       /\ sent[k].data = jobs[sent[k].job].data
       /\ k > 1 => sent[k - 1].job < sent[k].job

C1_Witness ==
  /\ Len(jobs) >= 2
  /\ jobs[1].status = "resolved"
  /\ jobs[2].status = "resolved"
  /\ jobs[1].data # jobs[2].data
  /\ wire = jobs[1].data \o jobs[2].data
  /\ \E k \in 1..Len(sent) : ~sent[k].simulated

\* C2: the transport never has two jobs in flight: a job is dequeued and
\* written only when no other job is between its dequeue and the confirmation
\* of its write and drain (simulation mode: its acknowledgement).
C2_OneInFlight ==
  /\ Cardinality(InFlight(jobs)) <= 1
  /\ InFlight(jobs) # {} => processing

C2_Witness ==
  /\ Cardinality(InFlight(jobs)) = 1
  /\ gapTimers >= 1
  /\ \E j \in 1..Len(jobs) : Settled(jobs[j])


\* C38: whenever the transport's isOpen flag is true, either simulationMode
\* is true or the serial port object exists and is open, across connect,
\* spontaneous close, reconnect, the start-up fallback and runtime toggles of
\* the simulation mode.
C38_OpenMeansUsable == isOpen => (simulationMode \/ port = "open")

\* how often job j stands in the queue
TimesQueued(j) == Cardinality({k \in 1..Len(commandQueue) : commandQueue[k] = j})

\* how often 'sent' was emitted for job j
TimesSent(j) == Cardinality({e \in 1..Len(sent) : sent[e].job = j})

\* job j is in exactly one phase and the queue, the port and the 'sent' events
\* agree with it
InOnePhase(j) ==
  /\ jobs[j].status \in {"queued", "writing", "simAck", "resolved", "rejected"}
  /\ TimesQueued(j) = IF jobs[j].status = "queued" THEN 1 ELSE 0
  /\ jobs[j].status = "queued" => jobs[j].written = 0 /\ TimesSent(j) = 0
  /\ jobs[j].status \in {"writing", "simAck"} => processing
  /\ jobs[j].written <= Len(jobs[j].data)
  /\ TimesSent(j) <= 1
  /\ jobs[j].status = "resolved" => jobs[j].written = Len(jobs[j].data) /\ TimesSent(j) = 1

\* C37: every job passed to send() is at all times in exactly one of the
\* phases waiting in the queue, in flight, or settled; it is settled once and
\* never while still in the queue; no job is dropped and none is written
\* twice, across send(), close, reconnect and simulation-mode toggles.
C37_JobLifecycle ==
  /\ [](\A j \in 1..Len(jobs) : InOnePhase(j))
  /\ [](\A k \in 1..Len(commandQueue) : commandQueue[k] \in 1..Len(jobs))
  /\ [][/\ Len(jobs') >= Len(jobs)
        /\ \A j \in 1..Len(jobs) :
             /\ Settled(jobs[j]) => jobs'[j] = jobs[j]
             /\ jobs[j].status # "queued" => jobs'[j].status # "queued"
             /\ jobs'[j].data = jobs[j].data
             /\ jobs'[j].written >= jobs[j].written]_vars

\* the first job was resolved by the simulation sink, the second is half
\* written to a live port that an explicit close() is closing
C37_Witness ==
  /\ Len(jobs) = 2
  /\ jobs[1].status = "resolved"
  /\ sent[1].simulated
  /\ jobs[2].status = "writing"
  /\ jobs[2].written = 1
  /\ port = "closing"
(***************************************************************************)
(* Session claims                                                          *)
(***************************************************************************)
\* a frame read by the framing rules: delimiters removed, escapes expanded,
\* checksum byte dropped, then split into address, opcode and payload
DecodedFrame(pkt) ==
  LET dec == decode(pkt)
      body == IF Len(dec) > 0 THEN SubSeq(dec, 1, Len(dec) - 1) ELSE dec
  IN  IF Len(body) < 3
      THEN [valid |-> FALSE, address |-> 0, command |-> 0, data |-> <<>>]
      ELSE [valid |-> TRUE, address |-> body[1] * 256 + body[2],
            command |-> body[3], data |-> SubSeq(body, 4, Len(body))]

\* the session state: a login has been processed and no logout after it
SessionActive ==
  \E k \in 1..Len(sessionLog) :
    /\ sessionLog[k] = "login"
    /\ \A m \in (k + 1)..Len(sessionLog) : sessionLog[m] # "logout"

LoginStep == sessionLog' = Append(sessionLog, "login")
LogoutStep == sessionLog' = Append(sessionLog, "logout")

\* C3: whenever the session is active (a login has been processed and no
\* later logout), the animation engine's running flag is false, for every
\* order of start-up, login, logout and animation timer events.
C3_SessionExclusion == SessionActive => ~running

\* C4: a logout leaves the animation engine's running flag true if and only
\* if the setting ambient_enabled is true (startAmbient would set the flag
\* before its first suspension, and nothing but a later command changes it);
\* when ambient_enabled is false the engine stays stopped and enqueues nothing.
C4_LogoutResumes ==
  [][LogoutStep => /\ running' <=> ambientEnabled'
                   /\ ~ambientEnabled' => jobs' = jobs]_vars

\* job j is a FADE to level 0 that login i passed to send()
IsLoginFade(js, i, j) ==
  /\ js[j].producer = "login"
  /\ js[j].owner = i
  /\ DecodedFrame(js[j].data).valid
  /\ DecodedFrame(js[j].data).command = MDP_FADE
  /\ Len(DecodedFrame(js[j].data).data) >= 1
  /\ DecodedFrame(js[j].data).data[1] = 0

\* the floor a fixture address is on (0 for an address of no fixture)
FloorOf(a) ==
  IF \E n \in 1..Len(Apartments) : Apartments[n].lightswarm_address = a
  THEN Apartments[CHOOSE n \in 1..Len(Apartments) :
                    Apartments[n].lightswarm_address = a].floor
  ELSE IF \E n \in 1..Len(Amenities) : Amenities[n].lightswarm_address = a
  THEN Amenities[CHOOSE n \in 1..Len(Amenities) :
                   Amenities[n].lightswarm_address = a].floor
  ELSE 0

FadeFloor(js, j) == FloorOf(DecodedFrame(js[j].data).address)

\* the floors that hold a fixture
PopulatedFloors ==
  {Apartments[n].floor : n \in 1..Len(Apartments)} \cup
  {Amenities[n].floor : n \in 1..Len(Amenities)}

\* the fades of login i cover the populated floors and never go back up
TopDown(js, i) ==
  LET f == {j \in 1..Len(js) : IsLoginFade(js, i, j)}
  IN  /\ {FadeFloor(js, j) : j \in f} = PopulatedFloors
      /\ \A j, k \in f : j < k => FadeFloor(js, j) >= FadeFloor(js, k)

\* C5: a login stops the animation engine before it enqueues its first fade
\* packet, and then enqueues its FADE-to-0 packets floor by floor from the
\* highest populated floor to the lowest: every fade packet of a floor has
\* completed before a fade packet of a lower floor is enqueued.
C5_LoginStopsThenFades ==
  [][ /\ LoginStep => ~running'
      /\ \A k \in (Len(jobs) + 1)..Len(jobs') :
           \A i \in 1..Len(logins') :
             IsLoginFade(jobs', i, k) =>
               \A j \in 1..(k - 1) :
                 (IsLoginFade(jobs', i, j) /\ FadeFloor(jobs', j) > FadeFloor(jobs', k))
                   => jobs'[j].status = "resolved"
      /\ \A i \in 1..Len(logins') :
           (logins'[i].pc = "done" /\ (i > Len(logins) \/ logins[i].pc # "done"))
             => TopDown(jobs', i) ]_vars

\* C6: a login emits a FADE packet with target level 0 for every fixture
\* address on every populated floor, and when it reports success the
\* transport's queue length is 0.
C6_LoginFadesEveryFixture ==
  \A i \in 1..Len(logins) :
    logins[i].pc = "done" =>
      /\ \A a \in FixtureAddresses :
           \E j \in 1..Len(jobs) :
             /\ IsLoginFade(jobs, i, j)
             /\ DecodedFrame(jobs[j].data).address = a
      /\ Len(commandQueue) = 0


\* the timestamp column of the k-th row, in seconds since the first row
timestamp(k) == Cardinality({m \in 1..k : sessionLog[m] = "tick"})

\* the rows of one event type
RowsOf(event_type) == {k \in 1..Len(sessionLog) : sessionLog[k] = event_type}

\* getRecent(10).find(...): the row of this type with the latest timestamp is
\* later than every row in later
IsLatest(k, rows) == \A m \in rows : timestamp(k) >= timestamp(m)

\* GET /status: isActive (fewer than 10 rows are in the log)
isActive ==
  /\ RowsOf("login") # {}
  /\ \/ RowsOf("logout") = {}
     \/ \E lastLogin \in RowsOf("login"), lastLogout \in RowsOf("logout") :
          /\ IsLatest(lastLogin, RowsOf("login"))
          /\ IsLatest(lastLogout, RowsOf("logout"))
          /\ timestamp(lastLogin) > timestamp(lastLogout)

\* C32: the session state is idle at process start, active after every login
\* and idle after every logout, and the session status query reports exactly
\* this state for every sequence of logins and logouts, however closely they
\* follow each other.
C32_StatusReportsState == isActive <=> SessionActive
(***************************************************************************)
(* Simulator claims                                                        *)
(***************************************************************************)
\* a frame decoded by the framing rules and applied to the fixture table
applyFrame(table, pkt) ==
  LET p == DecodedFrame(pkt)
  IN  IF ~p.valid THEN table
      ELSE executeCommand(table, p.address, p.command, p.data)

\* the first k emitted frames replayed on an all-off table
RECURSIVE Replay(_, _)
Replay(frames, k) ==
  IF k = 0 THEN [a \in FixtureAddresses |-> LightOff]
  ELSE applyFrame(Replay(frames, k - 1), frames[k].data)

\* C7: after any finite sequence of packets sent through the transport, the
\* simulator's fixture table equals the table obtained by decoding every
\* emitted packet by the framing rules (delimiters removed, DB DC and DB DD
\* expanded, checksum byte dropped) and replaying it in order on an initially
\* all-off table, packets with escaped bytes included.
C7_SimulatorReplaysSent == simEnabled => lights = Replay(sent, Len(sent))


\* the update the statement gives for one fixture and a decoded frame f
ClaimedState(state, f) ==
  LET l == IF Len(f.data) >= 1 THEN f.data[1] ELSE 0
      c == IF f.command = 44 THEN <<1, 2, 3>> ELSE <<1, 4, 7>>
      ch(i) == IF Len(f.data) >= c[i] THEN f.data[c[i]] ELSE 0
      top == CHOOSE m \in {ch(1), ch(2), ch(3)} : \A i \in 1..3 : m >= ch(i)
  IN  IF f.command = 32 THEN [on |-> TRUE, level |-> 255, r |-> 255, g |-> 255, b |-> 255]
      ELSE IF f.command = 33 THEN [on |-> FALSE, level |-> 0, r |-> 0, g |-> 0, b |-> 0]
      ELSE IF f.command \in {34, 35} THEN [on |-> l > 0, level |-> l, r |-> l, g |-> l, b |-> l]
      ELSE IF f.command \in {44, 49}
           THEN [on |-> \E i \in 1..3 : ch(i) > 0, level |-> top,
                 r |-> ch(1), g |-> ch(2), b |-> ch(3)]
      ELSE state

\* the fixture table the statement gives after frame f
ClaimedTable(table, f) ==
  [a \in DOMAIN table |->
     IF f.address = 65535 \/ f.address = a THEN ClaimedState(table[a], f) ELSE table[a]]

\* the step hands one more frame to the enabled simulator
Mirrors == simEnabled /\ Len(sent') = Len(sent) + 1

\* C35: the simulator applies every frame it is handed as its opcode says, to
\* the fixture the frame is addressed to, to every fixture for the address
\* 0xFFFF and to none when the address is not in the table: ON gives
\* 255 on all channels, OFF gives 0, LEVEL and FADE give their level on all
\* channels, RGB_LEVEL and RGB_FADE their three targets, with on = (any
\* channel > 0) and level = max channel.
C35_SimulatorApplies ==
  [][Mirrors =>
       LET f == DecodedFrame(sent'[Len(sent')].data)
       IN  f.valid => lights' = ClaimedTable(lights, f)]_vars

\* the invariant of one fixture's state
Coherent(state) ==
  /\ {state.level, state.r, state.g, state.b} \subseteq 0..255
  /\ state.on <=> (state.r > 0 \/ state.g > 0 \/ state.b > 0)
  /\ state.level \in {state.r, state.g, state.b}
  /\ state.level >= state.r /\ state.level >= state.g /\ state.level >= state.b

\* C39: in every reachable simulator state every fixture of the table has
\* on true exactly when one of r, g, b is above 0, level = max(r, g, b) and
\* r, g, b, level in 0..255, whatever packets were processed (any opcode, any
\* payload length, unicast or broadcast); a step that changes the table
\* without a packet being sent, which only resetAll takes, leaves every
\* fixture off with all channels 0.
C39_FixturesCoherent ==
  /\ [](\A a \in DOMAIN lights : Coherent(lights[a]))
  /\ [][(lights' # lights /\ sent' = sent) =>
          \A a \in DOMAIN lights' : lights'[a] = LightOff]_vars

\* an RGB_LEVEL frame with a single payload byte was processed
C39_Witness ==
  /\ lights[5] = [on |-> TRUE, level |-> 255, r |-> 255, g |-> 0, b |-> 0]
  /\ \E k \in 1..Len(sent) : sent[k].data = <<192, 0, 5, 44, 255, 7, 192>>
(***************************************************************************)
(* Builder claims                                                          *)
(***************************************************************************)
\* the bound of lo..hi nearest to v
Nearest(v, lo, hi) == IF v < lo THEN lo ELSE IF v > hi THEN hi ELSE v

\* C11: for all integer inputs, negative and over-range ones included, every
\* level byte emitted by buildLevelCommand, buildFadeCommand,
\* buildRgbLevelCommand and buildRgbFadeCommand lies in 0..255, every interval
\* byte in 1..255 and every step byte in 1..127; an out-of-range value is
\* coerced to the nearest bound and never makes the builder fail.
C11_Clamping ==
  LET a == callArgs
      v == callResult.value
      L(n) == Nearest(n, 0, 255)
      I(n) == Nearest(n, 1, 255)
      S(n) == Nearest(n, 1, 127)
  IN  callPc \in {"level", "fade", "rgbLevel", "rgbFade"} =>
        /\ callResult.thrown <=> a.address \notin 0..65535
        /\ ~callResult.thrown =>
             /\ \A k \in 1..Len(v) : v[k] \in 0..255
             /\ callPc = "level" => SubSeq(v, 4, Len(v)) = <<L(a.x)>>
             /\ callPc = "fade" => SubSeq(v, 4, Len(v)) = <<L(a.x), I(a.y), S(a.z)>>
             /\ callPc = "rgbLevel" => SubSeq(v, 4, Len(v)) = <<L(a.x), L(a.y), L(a.z)>>
             /\ callPc = "rgbFade" =>
                  SubSeq(v, 4, Len(v)) = <<L(a.x), I(a.y), S(a.z),
                                           L(a.y), I(a.z), S(a.x),
                                           L(a.z), I(a.x), S(a.y)>>

C11_Witness ==
  /\ callPc = "fade"
  /\ callArgs.x < 0
  /\ callArgs.y > 255
  /\ callArgs.z > 127
  /\ ~callResult.thrown
  /\ SubSeq(callResult.value, 4, 6) = <<0, 255, 127>>

\* C12: for all start levels s and target levels t in 0..255 and every fade
\* time d >= 0, calculateFadeParams returns an interval in 1..255 and a step
\* in 1..127, and returns exactly (interval 1, step 1) when s = t.
C12_FadeParamsInRange ==
  callPc = "fadeParams" =>
    /\ callResult.value.interval \in 1..255
    /\ callResult.value.step \in 1..127
    /\ callArgs.x = callArgs.y => callResult.value = [interval |-> 1, step |-> 1]

C12_Witness ==
  /\ callPc = "fadeParams"
  /\ callArgs.x = 0
  /\ callArgs.y = 255
  /\ callArgs.z = 1
  /\ callResult.value = [interval |-> 1, step |-> 127]

\* C13: for every address a in 0..65535, addressToBytes(a) = [a div 256,
\* a mod 256] and bytesToAddress(addressToBytes(a)) = a; an address outside
\* 0..65535 is rejected with an error instead of being packed.
C13_AddressPacking ==
  callPc = "address" =>
    /\ callResult.thrown <=> callArgs.address \notin 0..65535
    /\ ~callResult.thrown =>
         /\ callResult.value.bytes =
              <<callArgs.address \div 256, callArgs.address % 256>>
         /\ callResult.value.address = callArgs.address

C13_Witness ==
  /\ callPc = "address"
  /\ callArgs.address = 192
  /\ callResult = [thrown |-> FALSE,
                   value |-> [bytes |-> <<0, 192>>, address |-> 192]]

\* C27: for every colour channel value c in 0..255 and every intensity i in
\* 0..255, the channel value the resolver puts into the packet is
\* floor(c * i / 255).
C27_ScaleFloors ==
  callPc = "scale" => callResult.value = (callArgs.x * callArgs.y) \div 255


\* the bytes every builder starts with: address high, address low, opcode
Header(opcode) == <<callArgs.address \div 256, callArgs.address % 256, opcode>>

\* the two bytes of n, high byte first
BigEndian(n) == <<n \div 256, n % 256>>

\* the layouts of the command builders, for arguments in any range
BuilderLayouts ==
  LET a == callArgs
      v == callResult.value
      L(n) == Nearest(n, 0, 255)
      I(n) == Nearest(n, 1, 255)
      S(n) == Nearest(n, 1, 127)
  IN  (callPc \in {"on", "off", "level", "fade", "rgbLevel", "rgbFade", "flash"}
         /\ ~callResult.thrown) =>
        /\ callPc = "on" => v.command = Header(32)
        /\ callPc = "off" => v.command = Header(33)
        /\ callPc = "level" => v = Header(34) \o <<L(a.x)>>
        /\ callPc = "fade" => v = Header(35) \o <<L(a.x), I(a.y), S(a.z)>>
        /\ callPc = "rgbLevel" => v = Header(44) \o <<L(a.x), L(a.y), L(a.z)>>
        /\ callPc = "rgbFade" =>
             v = Header(49) \o <<L(a.x), I(a.y), S(a.z), L(a.y), I(a.z), S(a.x),
                                 L(a.z), I(a.x), S(a.y)>>
        /\ callPc = "flash" =>
             v = Header(46) \o BigEndian(Nearest(a.z, 2, 65535))
                            \o BigEndian(Nearest(a.y, 1, 65535))
                            \o BigEndian(Nearest(a.z, 1, 65535))
                            \o <<L(a.x), L(a.y)>>

\* ON at address 5 is framed as C0 00 05 20 25 C0
OnExample ==
  (callPc = "on" /\ callArgs.address = 5) =>
    callResult.value.packet = <<192, 0, 5, 32, 37, 192>>

\* the call packetRgbLevel(100, 255, 128, 64)
RgbLevelExample ==
  /\ callPc = "packetRgbLevel"
  /\ callArgs.address = 100
  /\ callArgs.x = 255
  /\ callArgs.y = 128
  /\ callArgs.z = 64

\* C31 as stated: every builder emits address high byte, address low byte,
\* opcode and its payload in the documented order, ON at address 5 is framed
\* as C0 00 05 20 25 C0 and RGB_LEVEL (255,128,64) at address 100 as
\* C0 00 64 2C FF 80 40 17 C0.
C31_Original ==
  /\ BuilderLayouts
  /\ OnExample
  /\ RgbLevelExample => callResult.value = <<192, 0, 100, 44, 255, 128, 64, 23, 192>>

\* C31: every builder emits address high byte, address low byte, opcode and
\* its payload in the documented order, ON at address 5 is framed as
\* C0 00 05 20 25 C0 and RGB_LEVEL (255,128,64) at address 100 as
\* C0 00 64 2C FF 80 40 77 C0: the XOR of 00 64 2C FF 80 40 is 0x77.
C31_BuilderLayouts ==
  /\ BuilderLayouts
  /\ OnExample
  /\ RgbLevelExample => callResult.value = <<192, 0, 100, 44, 255, 128, 64, 119, 192>>

\* the RGB_LEVEL example was framed, with the checksum 0x77
C31_Witness ==
  /\ RgbLevelExample
  /\ ~callResult.thrown
  /\ callResult.value[8] = 119

\* round(n / d) for n >= 0 and d > 0: the integer k with k - 1/2 <= n/d < k + 1/2
RoundOf(n, d) == CHOOSE k \in 0..n : (2 * k - 1) * d <= 2 * n /\ 2 * n < (2 * k + 1) * d

\* ceil(n / d) for n > 0 and d > 0: the integer c with c - 1 < n/d <= c
CeilOf(n, d) == CHOOSE c \in 1..n : (c - 1) * d < n /\ n <= c * d

Range(s) == {s[i] : i \in 1..Len(s)}

\* what the framing rules prescribe for one payload byte
StuffByte(b) ==
  IF b = 192 THEN <<219, 220>> ELSE IF b = 219 THEN <<219, 221>> ELSE <<b>>

RECURSIVE Stuffed(_)
Stuffed(s) == IF s = <<>> THEN <<>> ELSE StuffByte(Head(s)) \o Stuffed(Tail(s))

\* bit k of byte b, and the XOR of a byte sequence as the parity of each bit
BitOf(b, k) == (b \div (2 ^ k)) % 2

RECURSIVE OnesAt(_, _)
OnesAt(s, k) == IF s = <<>> THEN 0 ELSE BitOf(Head(s), k) + OnesAt(Tail(s), k)

RECURSIVE ParityBits(_, _)
ParityBits(s, k) ==
  IF k > 7 THEN 0 ELSE (OnesAt(s, k) % 2) * (2 ^ k) + ParityBits(s, k + 1)

XorOfBytes(s) == ParityBits(s, 0)

\* C8: for every byte sequence P, decode(encode(P)) = P, and encode(P) begins
\* and ends with 0xC0.
C8_RoundTrip ==
  /\ codecPc = "decoded" => decoded = codecIn
  /\ codecPc \in {"encoded", "decoded"} =>
       /\ Len(encoded) >= 2
       /\ Head(encoded) = 192
       /\ Last(encoded) = 192

C8_Witness ==
  /\ codecPc = "decoded"
  /\ {192, 219} \subseteq Range(codecIn)
  /\ decoded = codecIn

\* C9: encode replaces each payload 0xC0 by DB DC and each payload 0xDB by
\* DB DD and copies every other byte, so 0xC0 occurs only at the first and last
\* position of a frame and every 0xDB in between is followed by 0xDC or 0xDD.
C9_Stuffing ==
  codecPc = "encoded" =>
    /\ encoded = <<192>> \o Stuffed(codecIn) \o <<192>>
    /\ \A i \in 1..Len(encoded) :
         encoded[i] = 192 <=> i \in {1, Len(encoded)}
    /\ \A i \in 2..(Len(encoded) - 1) :
         encoded[i] = 219 =>
           /\ i + 1 <= Len(encoded) - 1
           /\ encoded[i + 1] \in {220, 221}

C9_Witness ==
  /\ codecPc = "encoded"
  /\ {192, 219} \subseteq Range(codecIn)
  /\ Len(encoded) = Len(codecIn) + 4

\* C10 (as claimed): the XOR checksum of the command bytes is the byte
\* immediately before the closing delimiter of the built packet.
C10_ChecksumBeforeDelimiter ==
  codecPc = "built" => packet[Len(packet) - 1] = XorOfBytes(codecIn)

\* C10 (amended): the checksum is the XOR of the command bytes and is the last
\* byte of the unframed packet; on the wire it stands immediately before the
\* closing delimiter unless it is 0xC0 or 0xDB, when the pair DB DC or DB DD
\* stands there instead.
C10_ChecksumLastUnframed ==
  codecPc = "built" =>
    LET c == XorOfBytes(codecIn)
        n == Len(packet)
    IN  /\ c \in 0..255
        /\ decode(packet) = Append(codecIn, c)
        /\ packet[n] = 192
        /\ c \notin {192, 219} => packet[n - 1] = c
        /\ c = 192 => packet[n - 2] = 219 /\ packet[n - 1] = 220
        /\ c = 219 => packet[n - 2] = 219 /\ packet[n - 1] = 221

C10_Witness ==
  /\ codecPc = "built"
  /\ Len(codecIn) >= 2
  /\ XorOfBytes(codecIn) = 192
  /\ packet[Len(packet) - 1] = 220

(***************************************************************************)
(* Reconnect claims                                                        *)
(***************************************************************************)
\* the transport becomes open in this step
ReachesOpen == ~isOpen /\ isOpen'

\* a job leaves the queue for the port or the simulation sink in this step
Dispatches == \E j \in 1..Len(jobs) : jobs[j].status = "queued" /\ jobs'[j].status # "queued"

IsSorted(q) == \A a, b \in 1..Len(q) : a < b => q[a] < q[b]

\* C14: jobs enqueued while the transport is not open stay in the queue in
\* enqueue order with no byte written and no completion signalled; whenever
\* the transport then reaches open (first connect or reconnect, live or
\* simulation mode) the queued jobs are dispatched without a further send().
C14_QueuedUntilOpen ==
  /\ [](~isOpen =>
          /\ IsSorted(commandQueue)
          /\ \A k \in 1..Len(commandQueue) :
               /\ jobs[commandQueue[k]].status = "queued"
               /\ jobs[commandQueue[k]].written = 0
               /\ \A e \in 1..Len(sent) : sent[e].job # commandQueue[k])
  /\ [][(ReachesOpen /\ commandQueue # <<>>) => Dispatches]_vars

\* C15: after a spontaneous close of an open port the transport makes re-open
\* attempts and reconnectAttempts never exceeds 10; once 10 consecutive
\* attempts have failed, no further attempt is scheduled.
C15_AttemptsBounded ==
  /\ [](reconnectAttempts <= maxReconnectAttempts)
  /\ [][port = "open" /\ port' = "closed" =>
          reconnectAttempts' = reconnectAttempts + 1 /\ reconnectTimers' = reconnectTimers + 1]_vars
  /\ [][reconnectAttempts = maxReconnectAttempts => reconnectTimers' <= reconnectTimers]_vars

\* the tenth attempt has failed and nothing is pending
C15_Witness ==
  /\ reconnectAttempts = maxReconnectAttempts
  /\ reconnectTimers = 0
  /\ port = "closed"
  /\ ~isOpen

\* C16: whenever the transport reaches open again after a connection loss,
\* reconnectAttempts is 0, on every path by which connect() opens it.
C16_OpenResetsAttempts ==
  [][ReachesOpen => reconnectAttempts' = 0]_vars

RECURSIVE Pow2(_)
Pow2(n) == IF n = 0 THEN 1 ELSE 2 * Pow2(n - 1)

\* C17: the wait before the n-th consecutive reconnect attempt is
\* 2 s * 2^(n-1): 2 s, 4 s, 8 s, ...
C17_ExponentialSchedule ==
  [][reconnectTimers' > reconnectTimers =>
       reconnectWait' = 2000 * Pow2(reconnectAttempts' - 1)]_vars

\* the write or drain of job j fails in this step
WriteFails(j) == jobs[j].status = "writing" /\ jobs'[j].status = "rejected"

\* C29: when a job's write or drain fails, the error is delivered to the
\* caller of that job and the transport enters the reconnecting state (not
\* open, a reconnect attempt pending); callers that enqueue while the
\* transport is not open are rejected.
C29_WriteFailureReconnects ==
  /\ [][\A j \in 1..Len(jobs) :
          WriteFails(j) => ~isOpen' /\ reconnectTimers' > reconnectTimers]_vars
  /\ [][\A j \in (Len(jobs) + 1)..Len(jobs') :
          ~isOpen' => jobs'[j].status = "rejected"]_vars


\* an explicit close() completes in this step: the admin reconnect's
\* port.close has called back, or shutdown's has
ExplicitCloseCompletes ==
  \/ port = "closing" /\ port' # "closing"
  \/ phase = "stopping" /\ phase' # "stopping"

\* C36: an explicit close() of the transport (shutdown, or the admin
\* reconnect that calls close() and then connect()) schedules no reconnect
\* attempt; only a spontaneous close of an open port does.
C36_ExplicitCloseSchedulesNothing ==
  [][ExplicitCloseCompletes => reconnectTimers' = reconnectTimers]_vars
(***************************************************************************)
(* Observer claims                                                         *)
(***************************************************************************)
\* the notifications that carry job j
SentOf(j) == {e \in 1..Len(sent) : sent[e].job = j}

\* the simulator's observer applied to the first k notifications, in order
RECURSIVE Observed(_, _)
Observed(notes, k) ==
  IF k = 0 THEN initializeFromDatabase
  ELSE processPacket(Observed(notes, k - 1), notes[k].data)

\* C18: for every job the transport emits (live: write and drain succeeded;
\* simulation: the sink took the job) exactly one 'sent' notification reaches
\* the observers, with the job's bytes unchanged and a simulated flag telling
\* whether the simulation sink handled it; notifications come in enqueue
\* order, so the simulator applies them in that order; a job whose write
\* failed, or that was not emitted yet, has no notification.
C18_SentOncePerJob ==
  /\ [](\A j \in 1..Len(jobs) :
          /\ Cardinality(SentOf(j)) =
               IF jobs[j].status \in {"resolved", "simAck"} THEN 1 ELSE 0
          /\ \A e \in SentOf(j) : sent[e].data = jobs[j].data)
  /\ [](\A a, b \in 1..Len(sent) : a < b => sent[a].job < sent[b].job)
  /\ [](simEnabled => lights = Observed(sent, Len(sent)))
  /\ [][\A e \in (Len(sent) + 1)..Len(sent') :
          sent'[e].simulated <=> jobs'[sent'[e].job].status = "simAck"]_vars

\* an off and then an on of fixture 5 were emitted and applied in that order
C18_Witness ==
  /\ simEnabled
  /\ Len(sent) = 2
  /\ sent[1] = [job |-> 1, data |-> packetOff(5), simulated |-> TRUE]
  /\ sent[2] = [job |-> 2, data |-> packetOn(5), simulated |-> TRUE]
  /\ lights # initializeFromDatabase

\* job j is handed to the port or to the simulation sink in this step
Starts(j) ==
  /\ j \in 1..Len(jobs')
  /\ jobs'[j].status \in {"writing", "simAck"}
  /\ j > Len(jobs) \/ jobs[j].status = "queued"

\* some other job has completed by the end of this step
CompletedBefore(j) ==
  \E i \in 1..Len(jobs') : i # j /\ jobs'[i].status \in {"resolved", "rejected"}

\* C19: between the completion of one job and the start of the next job's
\* write the inter-packet gap elapses, whenever the later job was enqueued:
\* a job that follows a completed one starts only when a delay(10) expires.
C19_GapBeforeEveryJob ==
  [][\A j \in 1..Len(jobs') :
       (Starts(j) /\ CompletedBefore(j)) => gapTimers' < gapTimers]_vars


\* C40: once the simulator is set up, its enabled flag equals the transport's
\* simulationMode, after start-up, after the start-up fallback and after
\* every runtime toggle of the mode; and while it is disabled no step changes
\* a fixture.
C40_SimulatorFollowsMode ==
  /\ [](phase \in {"listening", "running"} => simEnabled = simulationMode)
  /\ [][~simEnabled => lights' = lights]_vars
(***************************************************************************)
(* Engine claims                                                           *)
(***************************************************************************)
\* the jobs the engine's sequence enqueues in this step
NewAnimJobs == {j \in (Len(jobs) + 1)..Len(jobs') : jobs'[j].producer = "anim"}

\* C20: after stopAmbient() has cleared the running flag, the sequence sees
\* the cleared flag at its next suspension point (between packet enqueues,
\* between ticks) and enqueues no further packet: the sequence enqueues a
\* packet only while running is set.
C20_StoppedSequenceIsSilent ==
  [][NewAnimJobs # {} => running']_vars

\* C30: no runtime transport failure terminates the process: a port error
\* event, a spontaneous close, or a failed write or drain of a packet from any
\* producer leads to reconnect handling or to an error reported to the caller,
\* never to a process exit.
C30_FailuresNeverExit == phase # "exited"

\* C22: a call that starts the animation engine while the session is active
\* is a no-op: the running flag stays false and no animation packet is
\* enqueued.
C22_StartWhileActiveIsNoOp ==
  [][(SessionActive' /\ ~running) => (~running' /\ NewAnimJobs = {})]_vars

\* C21: the engine is either stopped or has exactly one active sequence
\* routine: for every interleaving of startAmbient and stopAmbient calls with
\* pending sends and timers there are never two routines that both go on to
\* enqueue packets, so a packet is enqueued only by the routine begun last.
C21_OneActiveRoutine ==
  [][\A j \in NewAnimJobs : jobs'[j].owner = Len(anim')]_vars


(***************************************************************************)
(* Claims about the lighting routes                                        *)
(***************************************************************************)
\* the requests the step has started
NewRequests == (Len(requests) + 1)..Len(requests')

\* the jobs the step has enqueued
NewJobs == (Len(jobs) + 1)..Len(jobs')

\* the request lights, with lightApartment, an apartment that has no
\* apartment_lights row and no usable primary address
LightsUnaddressed(req) ==
  /\ req.router = "apartments"
  /\ req.segment \in ApartmentIds
  /\ req.body.state = NULL \/ req.body.state \in VALID_STATES
  /\ SelectLights(ApartmentLights, req.segment) = <<>>
  /\ apartmentsGet(req.segment).lightswarm_address = 0

\* C23: a request that lights, with lightApartment, an apartment that has no
\* apartment_lights rows and no usable primary address fails with the
\* 'No light addresses assigned' error, enqueues no packet on the transport
\* and leaves every persisted state as it was; no packet is ever enqueued for
\* such an apartment by the apartments routes.
C23_NoAddressesFails ==
  /\ [][\A q \in NewRequests :
          LightsUnaddressed(requests'[q]) =>
            /\ requests'[q].status = 500
            /\ requests'[q].error = "No light addresses assigned to apartment"
            /\ NewJobs = {}
            /\ current_state' = current_state]_vars
  /\ [](\A j \in 1..Len(jobs) :
          (jobs[j].producer = "light" /\ requests[jobs[j].owner.req].router = "apartments")
            => ~LightsUnaddressed(requests[jobs[j].owner.req]))

\* a request for apartment T1-1002, which has no fixture address, was refused
C23_Witness ==
  \E q \in 1..Len(requests) :
    /\ LightsUnaddressed(requests[q])
    /\ requests[q].segment = "T1-1002"
    /\ requests[q].status = 500
    /\ current_state["T1-1002"] = "AVAILABLE"

\* C24: a light request whose state is not one of the six valid states is
\* refused: the step that takes the request enqueues no packet and changes no
\* persisted state, and no apartment's persisted state is ever an unknown one.
C24_UnknownStateRefused ==
  /\ [][\A q \in NewRequests :
          requests'[q].state \notin VALID_STATES =>
            /\ NewJobs = {}
            /\ current_state' = current_state]_vars
  /\ [](\A id \in ApartmentIds : current_state[id] \in VALID_STATES)

\* the packets request q has enqueued for apartment id and that completed
CompletedFor(q, id) ==
  {j \in 1..Len(jobs) : /\ jobs[j].producer = "light"
                        /\ jobs[j].owner = [req |-> q, apt |-> id]
                        /\ jobs[j].status = "resolved"}

\* every packet of lighting apartment id, one per fixture address, completed
\* for request q
AllCompleted(q, id) ==
  /\ id \in ApartmentIds
  /\ LET addresses == getApartmentAddresses(id, apartmentsGet(id).lightswarm_address)
     IN  /\ Len(addresses) > 0
         /\ Cardinality(CompletedFor(q, id)) = Len(addresses)

\* a batch light request that has been answered
BatchAnswered(req) ==
  /\ req.router = "apartments"
  /\ req.segment = "batch"
  /\ Len(req.body.apartments) > 0
  /\ req.body.state = NULL \/ req.body.state \in VALID_STATES
  /\ req.status # 0

\* C25: a batch light request is answered with a report over all its items:
\* every item was processed, the items that failed (unknown apartment, no
\* addresses, failed send) are in the per-item errors in list order, and the
\* count is the number of items all of whose packets completed.
C25_BatchReportsPerItem ==
  \A q \in 1..Len(requests) :
    BatchAnswered(requests[q]) =>
      LET items == requests[q].body.apartments
          failed == SelectSeq(items, LAMBDA id : ~AllCompleted(q, id))
      IN  /\ requests[q].status = 200
          /\ requests[q].count = Len(items) - Len(failed)
          /\ Len(requests[q].errors) = Len(failed)
          /\ \A e \in 1..Len(failed) : requests[q].errors[e].id = failed[e]

\* the step rejects a packet of a lighting route
RejectedNow(j) ==
  /\ jobs[j].producer = "light"
  /\ jobs[j].status # "rejected"
  /\ jobs'[j].status = "rejected"

\* C26: a step sets an apartment's persisted state only for a request with
\* that state all of whose packets for the apartment, one per fixture
\* address, have completed; and the step in which a packet of a lighting
\* route is rejected answers the request with the error and changes no
\* persisted state.
C26_StateAfterEveryPacket ==
  /\ [][\A id \in ApartmentIds :
          current_state'[id] # current_state[id] =>
            \E q \in 1..Len(requests') :
              /\ requests'[q].state = current_state'[id]
              /\ AllCompleted(q, id)']_vars
  /\ [][\A j \in 1..Len(jobs) :
          RejectedNow(j) =>
            /\ requests'[jobs[j].owner.req].status = 500
            /\ current_state' = current_state]_vars

\* the packets request q has enqueued for apartment id, in enqueue order
PacketsFor(q, id) ==
  LET own == SelectSeq(jobs, LAMBDA job : job.producer = "light" /\ job.owner = [req |-> q, apt |-> id])
  IN  [k \in 1..Len(own) |-> own[k].data]

\* C28: a floor group request that was answered with success has enqueued,
\* for each apartment of the group, exactly one packet per fixture address of
\* the apartment, in light-index order, and none for the broadcast address.
C28_FloorGroupPerFixture ==
  \A q \in 1..Len(requests) :
    (requests[q].router = "floorplates" /\ requests[q].status = 200) =>
      \A id \in ApartmentIds :
        apartmentsGet(id).floorplate_id = requests[q].segment =>
          LET addresses == getApartmentAddresses(id, apartmentsGet(id).lightswarm_address)
          IN  /\ \A k \in 1..Len(addresses) : addresses[k] # BROADCAST_ADDRESS
              /\ PacketsFor(q, id) =
                   [k \in 1..Len(addresses) |->
                      lightPacket(addresses[k], requests[q].color, requests[q].fadeTime)]

\* one channel of an RGB_FADE planned from level 0 to the target
PlannedFromZero(target, fadeTimeMs) ==
  [level |-> target,
   interval |-> calculateFadeParams(0, target, fadeTimeMs).interval,
   step |-> calculateFadeParams(0, target, fadeTimeMs).step]

\* a colour with each channel scaled as floor(channel * intensity / 255)
FloorScaled(color) ==
  LET actualIntensity == Or(color.intensity, default_intensity)
  IN  [r |-> (color.r * actualIntensity) \div 255,
       g |-> (color.g * actualIntensity) \div 255,
       b |-> (color.b * actualIntensity) \div 255]

\* the packet lightApartment is to enqueue for one address of request req
PlannedPacket(address, req) ==
  LET target == FloorScaled(getStateColor(req.state))
  IN  IF req.fadeTime > 0
      THEN buildPacket(buildRgbFadeCommand(address,
             PlannedFromZero(target.r, req.fadeTime),
             PlannedFromZero(target.g, req.fadeTime),
             PlannedFromZero(target.b, req.fadeTime)))
      ELSE buildPacket(buildRgbLevelCommand(address, target.r, target.g, target.b))

\* the jobs request q has enqueued for apartment id, in enqueue order
JobsFor(q, id) ==
  SelectSeq(jobs, LAMBDA job : job.producer = "light" /\ job.owner = [req |-> q, apt |-> id])

\* request q calls lightApartment
CallsLightApartment(q) ==
  /\ requests[q].router = "apartments"
  /\ requests[q].route = "/:id"
  /\ requests[q].segment \in ApartmentIds
  /\ requests[q].state \in VALID_STATES

\* C34: lightApartment enqueues exactly one packet per fixture address of
\* the apartment, in light-index order (the primary address alone when no
\* lights are associated), each only after the one before has completed: an
\* RGB_FADE planned per channel from level 0 to the channel's scaled target
\* when the effective fade time is > 0, an RGB_LEVEL with the scaled targets
\* otherwise.
C34_OnePacketPerFixture ==
  \A q \in 1..Len(requests) :
    CallsLightApartment(q) =>
      LET id == requests[q].segment
          addresses == getApartmentAddresses(id, apartmentsGet(id).lightswarm_address)
          own == JobsFor(q, id)
      IN  /\ Len(own) <= Len(addresses)
          /\ \A k \in 1..Len(own) : own[k].data = PlannedPacket(addresses[k], requests[q])
          /\ \A k \in 1..(Len(own) - 1) : own[k].status = "resolved"
          /\ requests[q].status = 200 =>
                /\ Len(own) = Len(addresses)
                /\ \A k \in 1..Len(own) : own[k].status = "resolved"
          /\ requests[q].status = 0 => Len(own) > 0 /\ own[Len(own)].status # "resolved"

====
